---- MODULE Spec2Model ----
(***************************************************************************)
(* A model of james-shell (jsh): the REPL loop and chain driver of         *)
(* src/main.rs, the job table of src/jobs.rs, the job-control builtins of  *)
(* src/builtins.rs, the tokenizer and splitters of src/parser.rs and       *)
(* src/script_parser.rs, and the pipeline executor and redirect resolver   *)
(* of src/executor.rs.                                                     *)
(*                                                                         *)
(* Several specifications share the variables below; each one drives the   *)
(* part of the program it is about and leaves the other variables idle.    *)
(*   Spec       the REPL with the job table and the job-control builtins   *)
(*   SpecChain  the chain driver of main(), over chains drawn directly     *)
(*   SpecLine   one input line: tokenizer, chain splitter, chain driver    *)
(*   SpecRedir  resolve_redirections, applied once and once more           *)
(*   SpecPipe   execute, execute_pipeline and the waits, child by child     *)
(*   SpecPipeLive   SpecPipe with the steps of the shell and its children   *)
(*              taken whenever they can be                                 *)
(*   SpecTerm   SpecPipe followed by fg lines, with the terminal guard     *)
(*   SpecEditor the line editor of src/editor.rs, key by key               *)
(***************************************************************************)
EXTENDS Integers, Sequences, FiniteSets, TLC

VARIABLES
    pc,              \* where the REPL loop of main() stands
    job_table,       \* JobTable { jobs, next_id }
    proc,            \* the OS view of every child the shell has spawned
    last_exit_code,  \* $?
    entries_left,    \* chain entries of the current line not yet considered
    background,      \* the current line ended with `&`
    last_cmd,        \* the operation the shell performed last
    last_args,       \* history: the arguments of that operation, if fg, bg or wait
    printed,         \* history: the lines that operation, if fg, bg or exit, wrote
    added,           \* history: job ids in the order they were added
    obs,             \* history: per job id, the Done lines printed for it
    pgrp,            \* the OS view: the process group every child is in
    shutdown,        \* what main() did after the loop: signals sent, exit status
    line,            \* the input line, a sequence of characters and plain runs
    chain,           \* pre_validated: (pipeline_words, connector) per entry
    entry_i,         \* index of the chain entry the driver considers next
    lpc,             \* where the processing of the line stands
    ran,             \* history: one record per entry the driver considered
    start_code,      \* history: $? before the line
    redirections,    \* the redirection list handed to resolve_redirections
    defaults,        \* RedirectionDefaults { stdin, stdout, stderr }
    rpc,             \* how often the list has been resolved
    resolved,        \* ResolvedRedirections of the first resolution
    resolved_again,  \* ResolvedRedirections of the second resolution
    commands,        \* the PipelineCommands handed to execute_pipeline
    stage_idx,       \* idx of the loop over the stages
    ppc,             \* where execute_pipeline stands
    started,         \* the stages started so far: children and builtin runs
    last_status,     \* last_status of execute_pipeline
    pipe_out,        \* what execute_pipeline returns, and why
    children,        \* the Vec<Child> of execute_pipeline: pids, in spawn order
    held,            \* the pipes whose read end the shell thread still holds
    remaining,       \* remaining of wait_for_pipeline_process_group
    last_code,       \* last_exit_code of wait_for_pipeline_process_group
    threads,         \* the worker threads of builtin stages, by stage
    mutations,       \* history: who changed the environment and the working directory
    guards,          \* the ForegroundTerminalGuards alive, by the function that holds one
    terminal,        \* stdin: is it a terminal, and its foreground process group
    fs,              \* the files of the working directory
    fs0,             \* history: the files before the command
    cd_env,          \* the working directory, the variables cd reads, the directories
    codec,           \* a raw wait status and what each classification makes of it
    editor,          \* LineEditor { buffer, cursor, history, history_idx, saved_buffer }
    typed            \* history: the key handled last and how far back in history it led

replVars == <<pc, job_table, proc, last_exit_code, entries_left, background,
              last_cmd, last_args, printed, added, obs, pgrp, shutdown>>

lineVars == <<line, chain, entry_i, lpc, ran, start_code>>

redirVars == <<redirections, defaults, rpc, resolved, resolved_again>>

pipeVars == <<commands, stage_idx, ppc, started, last_status, pipe_out,
              children, held, remaining, last_code, threads, mutations>>

\* the part of it only the stages that run a builtin touch
threadVars == <<threads, mutations>>

termVars == <<guards, terminal>>

edVars == <<editor, typed>>

vars == <<replVars, lineVars, redirVars, pipeVars, termVars, fs, fs0, cd_env, codec,
          edVars>>

\* what the actions of the REPL model leave alone
outsideRepl == <<lineVars, redirVars, pipeVars, termVars, fs, fs0, cd_env, codec, edVars>>

\* what the actions of the line model leave alone
outsideLine == <<pc, entries_left, obs, pgrp, shutdown, redirVars, pipeVars,
                 termVars, fs0, cd_env, codec, edVars>>

\* what the actions of the resolver model leave alone
outsideRedir == <<replVars, lineVars, pipeVars, termVars, fs0, cd_env, codec, edVars>>

\* what the actions of the pipeline model leave alone
outsidePipe == <<pc, last_exit_code, entries_left, background, last_cmd, last_args,
                 shutdown, obs, lineVars, redirVars, fs0, cd_env, codec, edVars>>

(***************************************************************************)
(* Bounds of the model.                                                    *)
(***************************************************************************)
MaxProcs == 2       \* children spawned in one run of the shell
MaxEntries == 2     \* chain entries of one input line (REPL model)
MaxWaitArgs == 1    \* arguments given to one `wait`
MaxChain == 3       \* chain entries (commands) of one line (line models)
MaxRedirs == 3      \* redirections of one command
MaxStages == 3      \* stages of one pipeline
MaxLen == 2         \* characters of the line being edited
MaxHistory == 2     \* MAX_HISTORY_SIZE, scaled down

JobIds == 1..(MaxProcs + 1)       \* job ids a user may name (one is never in the table)

(***************************************************************************)
(* src/jobs.rs: JobStatus, Job, JobTable                                   *)
(***************************************************************************)
Running == [tag |-> "Running", code |-> 0]
Stopped == [tag |-> "Stopped", code |-> 0]
Done(code) == [tag |-> "Done", code |-> code]

\* JobTable::new
NewJobTable == [jobs |-> <<>>, next_id |-> 1]

Range(f) == {f[i] : i \in DOMAIN f}

\* HashMap::insert: an existing key is overwritten
MapInsert(m, k, v) == [i \in (DOMAIN m) \cup {k} |-> IF i = k THEN v ELSE m[i]]

\* HashMap::remove
MapRemove(m, k) == [i \in (DOMAIN m) \ {k} |-> m[i]]

MapRemoveAll(m, ks) == [i \in (DOMAIN m) \ ks |-> m[i]]

\* mutant: next_id is not advanced, so the next job takes the same id
AddWithPgid_NoIncrement(t, pid, pgid) ==
    [jobs    |-> MapInsert(t.jobs, t.next_id,
                           [id |-> t.next_id, pid |-> pid, pgid |-> pgid, status |-> Running]),
     next_id |-> t.next_id]

\* JobTable::add_with_pgid
AddWithPgid(t, pid, pgid) ==
    [jobs    |-> MapInsert(t.jobs, t.next_id,
                           [id |-> t.next_id, pid |-> pid, pgid |-> pgid, status |-> Running]),
     next_id |-> t.next_id + 1]

\* mutant: the job is added as a Stopped one
Add_AsStopped(t, pid) ==
    LET t1 == AddWithPgid(t, pid, pid)
    IN  [t1 EXCEPT !.jobs[t.next_id].status = Stopped]

\* JobTable::add: the process group is the child's own pid
Add(t, pid) == AddWithPgid(t, pid, pid)

\* mutant: every job of the table is marked Stopped, not only the new one
AddStoppedWithPgid_MarksAll(t, pid, pgid) ==
    LET t1 == AddWithPgid(t, pid, pgid)
    IN  [t1 EXCEPT !.jobs = [id \in DOMAIN t1.jobs |-> [t1.jobs[id] EXCEPT !.status = Stopped]]]

\* mutant: the status of the new job is left Running
AddStoppedWithPgid_AsRunning(t, pid, pgid) == AddWithPgid(t, pid, pgid)

\* JobTable::add_stopped_with_pgid
AddStoppedWithPgid(t, pid, pgid) ==
    LET id == t.next_id
        t1 == AddWithPgid(t, pid, pgid)
    IN  IF id \in DOMAIN t1.jobs
        THEN [t1 EXCEPT !.jobs[id].status = Stopped]
        ELSE t1

\* JobTable::remove
Remove(t, id) == [t EXCEPT !.jobs = MapRemove(t.jobs, id)]

SetMax(S) == CHOOSE x \in S : \A y \in S : y <= x

\* mutant: the job with the least id is taken
MostRecentId_Oldest(t) ==
    IF DOMAIN t.jobs = {} THEN 0
    ELSE CHOOSE x \in DOMAIN t.jobs : \A y \in DOMAIN t.jobs : x <= y

\* JobTable::most_recent_id: None is 0 (no job has id 0)
MostRecentId(t) == IF DOMAIN t.jobs = {} THEN 0 ELSE SetMax(DOMAIN t.jobs)

\* mutant: the greatest id is taken, whatever the status of its job
MostRecentStoppedId_AnyStatus(t) ==
    IF DOMAIN t.jobs = {} THEN 0 ELSE SetMax(DOMAIN t.jobs)

\* JobTable::most_recent_stopped_id
MostRecentStoppedId(t) ==
    LET S == {id \in DOMAIN t.jobs : t.jobs[id].status = Stopped}
    IN  IF S = {} THEN 0 ELSE SetMax(S)

\* JobTable::running_ids (the HashMap yields them in no fixed order)
RunningIds(t) == {id \in DOMAIN t.jobs : t.jobs[id].status = Running}

(***************************************************************************)
(* The children of the shell as the OS sees them.  A child is "running",   *)
(* "stopped", a "zombie" (it has ended with the wait status `ws` and       *)
(* nobody has waited for it) or "reaped" (its status has been collected).  *)
(***************************************************************************)
\* the raw status waitpid reports for a child that has ended
ExitedStatus(n) == [k |-> "exited", n |-> n]
SignaledStatus(sig) == [k |-> "signaled", n |-> sig]
NoStatus == [k |-> "none", n |-> 0]

SIGPIPE == 13
SIGTERM == 15

\* the statuses a program that ends by itself may end with
EndStatuses == {ExitedStatus(0), ExitedStatus(7), SignaledStatus(SIGTERM)}

NoCode == -1    \* Option::None of an exit code

\* the libc macros on a raw wait status: WIFEXITED and WEXITSTATUS,
\* WIFSIGNALED and WTERMSIG (the core-dump bit 128 is not part of the
\* signal), WIFSTOPPED and WSTOPSIG; the rest (65535, a continued child,
\* among them) is none of the three
WaitStatusOf(raw) ==
    IF raw % 128 = 0 THEN [k |-> "exited", n |-> (raw \div 256) % 256]
    ELSE IF raw % 128 # 127 THEN [k |-> "signaled", n |-> raw % 128]
    ELSE IF raw % 256 = 127 THEN [k |-> "stopped", n |-> (raw \div 256) % 256]
    ELSE [k |-> "other", n |-> 0]

\* status::exit_code_from_wait_status: None for a status that is neither
ExitCodeFromWaitStatus(ws) ==
    IF ws.k = "exited" THEN ws.n
    ELSE IF ws.k = "signaled" THEN 128 + ws.n
    ELSE NoCode

\* the classification written out in wait_for_pipeline_process_group
PipelineWaitCode(ws) ==
    IF ws.k = "exited" THEN ws.n
    ELSE IF ws.k = "signaled" THEN 128 + ws.n
    ELSE 1

\* mutant: the signal number is returned as it is
ExitCode_SignalAsCode(ws) ==
    IF ws.k = "exited" THEN ws.n
    ELSE IF ws.k = "signaled" THEN ws.n
    ELSE 1

\* status::exit_code: the code of the ExitStatus, else 128 + its signal
ExitCode(ws) ==
    IF ws.k = "exited" THEN ws.n
    ELSE IF ws.k = "signaled" THEN 128 + ws.n
    ELSE 1

NextPid == Cardinality(DOMAIN proc) + 1

Spawned(p, pid) == MapInsert(p, pid, [st |-> "running", ws |-> NoStatus])

\* Child::try_wait as JobTable::reap uses it: Some(status) for a zombie
TryWaitReady(p, pid) == p[pid].st = "zombie"

\* JobTable::reap, first loop: every Running job whose child has ended is
\* marked Done(code); the ids are collected in done_ids
ReapMarked(t, p) ==
    [id \in DOMAIN t.jobs |->
        IF t.jobs[id].status = Running /\ TryWaitReady(p, t.jobs[id].pid)
        THEN [t.jobs[id] EXCEPT !.status = Done(ExitCode(p[t.jobs[id].pid].ws))]
        ELSE t.jobs[id]]

ReapDoneIds(t, p) ==
    {id \in DOMAIN t.jobs :
        t.jobs[id].status = Running /\ TryWaitReady(p, t.jobs[id].pid)}

\* mutant: the jobs marked Done stay in the table
Reap_NoRemove(t, p) == [t EXCEPT !.jobs = ReapMarked(t, p)]

\* JobTable::reap, second loop: the jobs of done_ids are removed
Reap(t, p) == [t EXCEPT !.jobs = MapRemoveAll(ReapMarked(t, p), ReapDoneIds(t, p))]

\* the children whose status reap() collected
ReapProcs(t, p) ==
    [pid \in DOMAIN p |->
        IF \E id \in ReapDoneIds(t, p) : t.jobs[id].pid = pid
        THEN [p[pid] EXCEPT !.st = "reaped"]
        ELSE p[pid]]

\* history: reap() printed one "[id]  Done  cmd" for every id of done_ids
ObsDone(o, ids, by) ==
    [id \in DOMAIN o |->
        IF id \in ids
        THEN [lines |-> o[id].lines + 1, by |-> by, seen |-> by]
        ELSE o[id]]

\* history: `by` saw the job end and printed nothing
ObsSilent(o, id, by) == [o EXCEPT ![id].seen = by]

NoObs == [id \in JobIds |-> [lines |-> 0, by |-> "none", seen |-> "none"]]

(***************************************************************************)
(* src/builtins.rs: the job-control builtins                               *)
(***************************************************************************)
NoArg == [k |-> "none", n |-> 0]        \* no argument
BadArg == [k |-> "bad", n |-> 0]        \* an argument that is not a number
IdArg(n) == [k |-> "id", n |-> n]       \* N or %N

JobArgs == {NoArg, BadArg} \cup {IdArg(n) : n \in JobIds}

\* a line about job `id` on stdout: its command ("command"), "[id]  Stopped
\* command" ("Stopped") or "[id]  command &" ("&")
JobLine(k, id) == [k |-> k, id |-> id]

\* the line "[id] pid" on stdout
JobAnnounce(id, pid) == [k |-> "[id] pid", id |-> id, pid |-> pid]

\* args of a builtin called with the argument `arg` or with none
ArgList(arg) == IF arg = NoArg THEN <<>> ELSE <<arg>>

NoJob == -1     \* Option::None of resolve_job_id

\* resolve_job_id; `default` is 0 when the table offers none
ResolveJobId(arg, default) ==
    IF arg.k = "id" THEN arg.n
    ELSE IF arg.k = "bad" THEN NoJob
    ELSE IF default = 0 THEN NoJob ELSE default

\* send_continue_to_group: every stopped member of the group runs again
Continued(p, pgid, t) ==
    [pid \in DOMAIN p |->
        IF p[pid].st = "stopped" /\ \E id \in DOMAIN t.jobs :
                                        t.jobs[id].pid = pid /\ t.jobs[id].pgid = pgid
        THEN [p[pid] EXCEPT !.st = "running"]
        ELSE p[pid]]

\* mutant: an id that names no job is passed over in silence
WaitForJob_MissingIgnored(s, id, fc) ==
    IF id \notin DOMAIN s.t.jobs
    THEN s
    ELSE IF s.t.jobs[id].status # Running
    THEN [s EXCEPT !.last_status = 0]
    ELSE LET pid == s.t.jobs[id].pid
             ws == IF s.p[pid].st = "zombie" THEN s.p[pid].ws ELSE fc[pid]
         IN  [t           |-> Remove(s.t, id),
              p           |-> [s.p EXCEPT ![pid] = [st |-> "reaped", ws |-> ws]],
              o           |-> ObsDone(s.o, {id}, "wait"),
              last_status |-> ExitCode(ws),
              had_error   |-> s.had_error]

\* mutant: the job is waited and removed, and no Done line is written
WaitForJob_NoDoneLine(s, id, fc) ==
    IF id \notin DOMAIN s.t.jobs
    THEN [s EXCEPT !.had_error = TRUE]
    ELSE IF s.t.jobs[id].status # Running
    THEN [s EXCEPT !.last_status = 0]
    ELSE LET pid == s.t.jobs[id].pid
             ws == IF s.p[pid].st = "zombie" THEN s.p[pid].ws ELSE fc[pid]
         IN  [t           |-> Remove(s.t, id),
              p           |-> [s.p EXCEPT ![pid] = [st |-> "reaped", ws |-> ws]],
              o           |-> ObsSilent(s.o, id, "wait"),
              last_status |-> ExitCode(ws),
              had_error   |-> s.had_error]

\* wait_for_job: `s` carries the table, the children, the history and the
\* two locals of builtin_wait; fc[pid] is the status a child still running
\* ends with while wait blocks on it
WaitForJob(s, id, fc) ==
    IF id \notin DOMAIN s.t.jobs
    THEN [s EXCEPT !.had_error = TRUE]
    ELSE IF s.t.jobs[id].status # Running
    THEN [s EXCEPT !.last_status = 0]
    ELSE LET pid == s.t.jobs[id].pid
             ws == IF s.p[pid].st = "zombie" THEN s.p[pid].ws ELSE fc[pid]
         IN  IF s.p[pid].st = "reaped"
             THEN [s EXCEPT !.had_error = TRUE]
             ELSE [t           |-> Remove(s.t, id),
                   p           |-> [s.p EXCEPT ![pid] = [st |-> "reaped", ws |-> ws]],
                   o           |-> ObsDone(s.o, {id}, "wait"),
                   last_status |-> ExitCode(ws),
                   had_error   |-> s.had_error]

\* builtin_wait, the loop over the arguments (or over running_ids())
RECURSIVE WaitArgs(_, _, _)
WaitArgs(s, args, fc) ==
    IF args = <<>> THEN s
    ELSE LET a == Head(args)
             s1 == IF a.k = "id" THEN WaitForJob(s, a.n, fc)
                   ELSE [s EXCEPT !.had_error = TRUE]
         IN  WaitArgs(s1, Tail(args), fc)

\* mutant: the errors met on the way are forgotten
WaitCode_ErrorsIgnored(s) == s.last_status

\* builtin_wait: the returned code
WaitCode(s) == IF s.had_error THEN 1 ELSE s.last_status

Perms(S) ==
    {f \in [1..Cardinality(S) -> S] : \A i, j \in 1..Cardinality(S) : i # j => f[i] # f[j]}


WaitArgLists ==
    UNION {[1..n -> JobArgs \ {NoArg}] : n \in 1..MaxWaitArgs}

(***************************************************************************)
(* src/executor.rs: handles and the redirect resolver.  The working        *)
(* directory holds the files of Paths; a file is "absent", holds "data"    *)
(* or is "empty".  Every path drawn can be opened for writing.             *)
(***************************************************************************)
Paths == {"f", "g"}

NullDevice == "/dev/null"

\* OutputHandle / InputHandle
Inherit == [k |-> "Inherit", path |-> "", append |-> FALSE]
Null == [k |-> "Null", path |-> "", append |-> FALSE]
Pipe == [k |-> "Pipe", path |-> "", append |-> FALSE]
File(path, append) == [k |-> "File", path |-> path, append |-> append]

\* OutputHandle::try_clone: a handle of the same kind on the same target
TryClone(h) == h

\* what a process or a writer ends up writing to
ShellStream(label) == [k |-> "Shell", path |-> label, append |-> FALSE]

\* OutputHandle::into_stdio, used as .stdout(..) or .stderr(..) of the
\* command (label): Stdio::inherit() is the shell's own stream of that name
IntoStdio(h, label) == IF h.k = "Inherit" THEN ShellStream(label) ELSE h

\* OutputHandle::into_writer(label): Inherit is io::stderr() for "stderr"
\* and io::stdout() otherwise
IntoWriter(h, label) ==
    IF h.k = "Inherit"
    THEN (IF label = "stderr" THEN ShellStream("stderr") ELSE ShellStream("stdout"))
    ELSE h

\* Redirection { fd, target }: target File(path), FileAppend(path),
\* FileRead(path) or Fd(n)
ToFile(fd, path) == [fd |-> fd, target |-> "File", path |-> path, n |-> 0]
ToFileAppend(fd, path) == [fd |-> fd, target |-> "FileAppend", path |-> path, n |-> 0]
FromFile(path) == [fd |-> 0, target |-> "FileRead", path |-> path, n |-> 0]
Dup(fd, n) == [fd |-> fd, target |-> "Fd", path |-> "", n |-> n]

\* redirect::is_null_device
IsNullDevice(path) == path = NullDevice

\* open_output_file: the handle, and the files after create/truncate/append
OpenOutputFile(files, path, append) ==
    IF IsNullDevice(path)
    THEN [handle |-> Null, fs |-> files]
    ELSE [handle |-> File(path, append),
          fs |-> [files EXCEPT ![path] =
                    IF append THEN (IF @ = "absent" THEN "empty" ELSE @) ELSE "empty"]]

\* the locals of resolve_redirections before the loop
ResolveStart(D, files) ==
    [ok |-> TRUE, stdin |-> D.stdin, stdout |-> D.stdout, stderr |-> D.stderr,
     stdout_redirected |-> FALSE, fs |-> files]

\* mutant: a duplication moves the handle out of its source, which falls
\* back to Inherit
ResolveOne_DupMoves(s, r) ==
    IF r.target = "Fd" /\ r.n = r.fd THEN s
    ELSE IF r.target \in {"File", "FileAppend"} /\ r.fd = 1
    THEN LET o == OpenOutputFile(s.fs, r.path, r.target = "FileAppend")
         IN  [s EXCEPT !.stdout = o.handle, !.stdout_redirected = TRUE, !.fs = o.fs]
    ELSE IF r.target = "FileRead" /\ r.fd = 0
    THEN IF s.fs[r.path] = "absent"
         THEN [s EXCEPT !.ok = FALSE]
         ELSE [s EXCEPT !.stdin = File(r.path, FALSE)]
    ELSE IF r.target \in {"File", "FileAppend"} /\ r.fd = 2
    THEN LET o == OpenOutputFile(s.fs, r.path, r.target = "FileAppend")
         IN  [s EXCEPT !.stderr = o.handle, !.fs = o.fs]
    ELSE IF r.target = "Fd" /\ r.n = 1 /\ r.fd = 2
    THEN [s EXCEPT !.stderr = s.stdout, !.stdout = Inherit]
    ELSE IF r.target = "Fd" /\ r.n = 2 /\ r.fd = 1
    THEN [s EXCEPT !.stdout = s.stderr, !.stderr = Inherit, !.stdout_redirected = TRUE]
    ELSE [s EXCEPT !.ok = FALSE]

\* resolve_redirections: one turn of the loop, the arms of the match
ResolveOne(s, r) ==
    IF r.target = "Fd" /\ r.n = r.fd THEN s
    ELSE IF r.target \in {"File", "FileAppend"} /\ r.fd = 1
    THEN LET o == OpenOutputFile(s.fs, r.path, r.target = "FileAppend")
         IN  [s EXCEPT !.stdout = o.handle, !.stdout_redirected = TRUE, !.fs = o.fs]
    ELSE IF r.target = "FileRead" /\ r.fd = 0
    THEN IF s.fs[r.path] = "absent"
         THEN [s EXCEPT !.ok = FALSE]
         ELSE [s EXCEPT !.stdin = File(r.path, FALSE)]
    ELSE IF r.target \in {"File", "FileAppend"} /\ r.fd = 2
    THEN LET o == OpenOutputFile(s.fs, r.path, r.target = "FileAppend")
         IN  [s EXCEPT !.stderr = o.handle, !.fs = o.fs]
    ELSE IF r.target = "Fd" /\ r.n = 1 /\ r.fd = 2
    THEN [s EXCEPT !.stderr = TryClone(s.stdout)]
    ELSE IF r.target = "Fd" /\ r.n = 2 /\ r.fd = 1
    THEN [s EXCEPT !.stdout = TryClone(s.stderr), !.stdout_redirected = TRUE]
    ELSE [s EXCEPT !.ok = FALSE]

\* the loop of resolve_redirections; `?` leaves it at the first error
RECURSIVE ResolveFrom(_, _)
ResolveFrom(s, L) ==
    IF L = <<>> \/ ~s.ok THEN s
    ELSE ResolveFrom(ResolveOne(s, Head(L)), Tail(L))

IsDup(r) == r.target = "Fd"

IsNotDup(r) == r.target # "Fd"

\* mutant: the duplications are applied before the other redirections
Resolve_DupsFirst(L, D, files) ==
    ResolveFrom(ResolveStart(D, files), SelectSeq(L, IsDup) \o SelectSeq(L, IsNotDup))

\* mutant: a redirection that fails is passed over and the stage goes on
Resolve_ErrorsIgnored(L, D, files) ==
    [ResolveFrom(ResolveStart(D, files), L) EXCEPT !.ok = TRUE]

\* resolve_redirections
Resolve(L, D, files) == ResolveFrom(ResolveStart(D, files), L)

\* ResolvedRedirections, without the files
Resolved(s) ==
    [ok |-> s.ok, stdin |-> s.stdin, stdout |-> s.stdout, stderr |-> s.stderr,
     stdout_redirected |-> s.stdout_redirected]

Unresolved ==
    [ok |-> FALSE, stdin |-> Inherit, stdout |-> Inherit, stderr |-> Inherit,
     stdout_redirected |-> FALSE]

NoFiles == [p \in Paths |-> "absent"]

NoOutcome == [code |-> 0, why |-> "none"]

(***************************************************************************)
(* src/job_control.rs: the terminal and ForegroundTerminalGuard.  `guards` *)
(* maps the function that holds a guard (a local `terminal_guard` that is  *)
(* Some) to the guard: its tty_fd, "Some" or "None", and its shell_pgid.   *)
(***************************************************************************)
ShellPgid == 0      \* getpgrp(): the process group of the shell itself

\* ForegroundTerminalGuard::new(target_pgid) as `holder` calls it: Ok(guard)
\* is kept as Some(guard); on Err the guard built so far is dropped, which
\* sets the terminal back, and the holder goes on with None
ForegroundTerminalGuardNew(holder, target_pgid) ==
    \/ /\ ~terminal.isatty
       /\ guards' = MapInsert(guards, holder, [tty_fd |-> "None", shell_pgid |-> ShellPgid])
       /\ UNCHANGED terminal
    \/ /\ terminal.isatty                  \* tcsetpgrp(fd, target_pgid) succeeds
       /\ guards' = MapInsert(guards, holder, [tty_fd |-> "Some", shell_pgid |-> ShellPgid])
       /\ terminal' = [terminal EXCEPT !.pgrp = target_pgid]
    \/ /\ terminal.isatty                  \* tcsetpgrp(fd, target_pgid) fails
       /\ terminal' = [terminal EXCEPT !.pgrp = ShellPgid]
       /\ UNCHANGED guards

\* mutant: the guard is forgotten without running its destructor
DropGuard_Forgotten(holder) ==
    /\ guards' = MapRemoveAll(guards, {holder})
    /\ UNCHANGED terminal

\* Drop for ForegroundTerminalGuard, when `holder` drops its terminal_guard
\* or returns with it in scope; nothing happens if it holds None
DropGuard(holder) ==
    IF holder \in DOMAIN guards
    THEN /\ guards' = MapRemoveAll(guards, {holder})
         /\ terminal' = IF guards[holder].tty_fd = "Some"
                        THEN [terminal EXCEPT !.pgrp = guards[holder].shell_pgid]
                        ELSE terminal
    ELSE UNCHANGED termVars

(***************************************************************************)
(* src/builtins.rs: builtin_exit.  The text of an argument is a sequence   *)
(* of characters, so that str::parse::<i32> is computed digit by digit.    *)
(***************************************************************************)
Digits == <<"0", "1", "2", "3", "4", "5", "6", "7", "8", "9">>

IsDigit(c) == \E i \in DOMAIN Digits : Digits[i] = c

DigitOf(c) == (CHOOSE i \in DOMAIN Digits : Digits[i] = c) - 1

I32Max == (2^30 - 1) * 2 + 1
I32Min == -I32Max - 1

ParseError == [ok |-> FALSE, n |-> 0]

\* the digit loop of i32::from_str: checked_mul(10), then checked_add(d),
\* or checked_sub(d) below zero; a character that is no digit is an error
RECURSIVE ParseDigits(_, _, _)
ParseDigits(chars, acc, neg) ==
    IF chars = <<>> THEN [ok |-> TRUE, n |-> acc]
    ELSE IF ~IsDigit(Head(chars)) THEN ParseError
    ELSE LET d == DigitOf(Head(chars))
         IN  IF neg
             THEN IF acc < (I32Min + d + 9) \div 10 THEN ParseError
                  ELSE ParseDigits(Tail(chars), acc * 10 - d, neg)
             ELSE IF acc > (I32Max - d) \div 10 THEN ParseError
                  ELSE ParseDigits(Tail(chars), acc * 10 + d, neg)

\* str::parse::<i32>: an optional sign, then at least one digit
ParseI32(chars) ==
    IF chars = <<>> THEN ParseError
    ELSE LET signed == Head(chars) \in {"+", "-"}
             digits == IF signed THEN Tail(chars) ELSE chars
         IN  IF digits = <<>> THEN ParseError
             ELSE ParseDigits(digits, 0, Head(chars) = "-")

\* "exit: {s}: numeric argument required" on stderr
ExitMessage(s) == [k |-> "numeric argument required", id |-> s]

\* mutant: the argument is not looked at
BuiltinExit_ArgIgnored(args) == [code |-> 0, message |-> <<>>]

\* builtin_exit: Exit(0), Exit(code) or, with the message, Exit(2)
BuiltinExit(args) ==
    IF args = <<>> THEN [code |-> 0, message |-> <<>>]
    ELSE LET r == ParseI32(args[1])
         IN  IF r.ok THEN [code |-> r.n, message |-> <<>>]
             ELSE [code |-> 2, message |-> <<ExitMessage(args[1])>>]

\* the texts a user may give to exit
ExitTexts ==
    {<<"7">>, <<"4", "2">>, <<"0">>, <<"-", "1">>, <<"+", "3">>, <<"3", "0", "0">>,
     <<"x">>, <<"7", "x">>, <<"-">>, <<>>,
     <<"2", "1", "4", "7", "4", "8", "3", "6", "4", "7">>,
     <<"2", "1", "4", "7", "4", "8", "3", "6", "4", "8">>,
     <<"-", "2", "1", "4", "7", "4", "8", "3", "6", "4", "8">>}

ExitArgLists == {<<>>} \cup {<<t>> : t \in ExitTexts} \cup {<<<<"7">>, <<"x">>>>}

(***************************************************************************)
(* src/main.rs: after the loop.  send_sighup_to_jobs signals the process   *)
(* group each job records; a signal reaches the children that are in that  *)
(* group.  A hangup sent to a stopped child stays pending until the child  *)
(* is continued.                                                           *)
(***************************************************************************)
NoShutdown == [done |-> FALSE, sent |-> <<>>, received |-> {}, status |-> 0]

\* the children that kill(-pgid, sig) reaches
Members(g, p, pgid) ==
    {pid \in DOMAIN p : g[pid] = pgid /\ p[pid].st \in {"running", "stopped"}}

\* kill(-pgid, SIGHUP)
KillHangup(s, g, pgid) ==
    LET m == Members(g, s.p, pgid)
    IN  [s EXCEPT !.received = @ \cup {pid \in m : s.p[pid].st = "running"},
                  !.pending = @ \cup {pid \in m : s.p[pid].st = "stopped"},
                  !.sent = Append(@, pgid)]

\* kill(-pgid, SIGCONT)
KillContinue(s, g, pgid) ==
    LET m == Members(g, s.p, pgid)
    IN  [s EXCEPT !.p = [pid \in DOMAIN s.p |->
                            IF pid \in m THEN [s.p[pid] EXCEPT !.st = "running"]
                            ELSE s.p[pid]],
                  !.received = @ \cup (s.pending \cap m),
                  !.pending = @ \ m]

\* send_sighup_to_jobs: the loop over jobs_sorted() from job id `id` on
RECURSIVE SendSighupFrom(_, _, _, _)
SendSighupFrom(s, t, g, id) ==
    IF id >= t.next_id THEN s
    ELSE IF id \notin DOMAIN t.jobs \/ t.jobs[id].status.tag = "Done"
    THEN SendSighupFrom(s, t, g, id + 1)
    ELSE SendSighupFrom(KillContinue(KillHangup(s, g, t.jobs[id].pgid), g, t.jobs[id].pgid),
                        t, g, id + 1)

SendSighupToJobs(t, p, g) ==
    SendSighupFrom([p |-> p, pending |-> {}, received |-> {}, sent |-> <<>>], t, g, 1)

\* main.rs:304-307  send_sighup_to_jobs, then std::process::exit(code)
AfterLoop(code) ==
    LET s == SendSighupToJobs(job_table, proc, pgrp)
    IN  /\ proc' = s.p
        /\ shutdown' = [done |-> TRUE, sent |-> s.sent, received |-> s.received,
                        status |-> code]

(***************************************************************************)
(* src/builtins.rs: builtin_cd.  cd_env holds the working directory of the *)
(* process, the three variables cd reads and the directories that exist.   *)
(***************************************************************************)
Unset == [set |-> FALSE, val |-> ""]       \* std::env::var(..) is Err
Var(v) == [set |-> TRUE, val |-> v]

Directories == {"/a", "/b"}                \* the directories there may be
CdTargets == Directories \cup {"/gone", "."}

\* the target builtin_cd computes: OLDPWD for "-", the argument, or HOME,
\* else USERPROFILE, else "."
CdTarget(env, args) ==
    IF args # <<>> /\ args[1] = "-" THEN env.OLDPWD
    ELSE IF args # <<>> THEN Var(args[1])
    ELSE IF env.HOME.set THEN env.HOME
    ELSE IF env.USERPROFILE.set THEN env.USERPROFILE
    ELSE Var(".")

\* std::env::current_dir(): Err once the working directory has been removed
CurrentDir(env) == IF env.cwd \in env.dirs THEN Var(env.cwd) ELSE Unset

\* std::env::set_current_dir(target): the working directories it may leave,
\* none if it fails (in a removed directory "." may or may not resolve)
SetCurrentDir(env, target) ==
    IF target = "." THEN {env.cwd}
    ELSE IF target \in env.dirs THEN {target}
    ELSE {}

SetCurrentDirMayFail(env, target) ==
    \/ target \notin env.dirs \cup {"."}
    \/ target = "." /\ env.cwd \notin env.dirs

\* a message of cd on stderr
CdMessage(m) == [k |-> m, id |-> 0]

(***************************************************************************)
(* The parts of the model at rest.                                         *)
(***************************************************************************)
\* the directory model at rest
CdIdle == cd_env = [cwd |-> "/a", OLDPWD |-> Unset, HOME |-> Unset, USERPROFILE |-> Unset,
                    dirs |-> Directories]

(***************************************************************************)
(* src/editor.rs: the line editor.  The buffer is a Vec<char>, a sequence  *)
(* of code points; a String (a history entry, saved_buffer, the line       *)
(* submitted) is the sequence of its UTF-8 bytes.                          *)
(***************************************************************************)
\* the characters typed: a space, `a` and `é` (two bytes in UTF-8)
Chars == {32, 97, 233}

\* the UTF-8 encoding of a code point below 2048
Utf8(c) == IF c < 128 THEN <<c>> ELSE <<192 + (c \div 64), 128 + (c % 64)>>

\* buffer.iter().collect::<String>()
RECURSIVE Collect(_)
Collect(chars) ==
    IF chars = <<>> THEN <<>> ELSE Utf8(Head(chars)) \o Collect(Tail(chars))

\* s.chars().collect::<Vec<char>>()
RECURSIVE CharsOf(_)
CharsOf(s) ==
    IF s = <<>> THEN <<>>
    ELSE IF s[1] < 128 THEN <<s[1]>> \o CharsOf(Tail(s))
    ELSE <<((s[1] - 192) * 64) + (s[2] - 128)>> \o CharsOf(SubSeq(s, 3, Len(s)))

\* str::trim
RECURSIVE Trim(_)
Trim(s) ==
    IF s = <<>> THEN s
    ELSE IF s[1] = 32 THEN Trim(Tail(s))
    ELSE IF s[Len(s)] = 32 THEN Trim(SubSeq(s, 1, Len(s) - 1))
    ELSE s

\* Vec::remove(i), Vec::insert(i, c), Vec::truncate(n) and Vec::drain(a..b),
\* with the indices of the code (from 0)
RemoveAt(v, i) == SubSeq(v, 1, i) \o SubSeq(v, i + 2, Len(v))

InsertAt(v, i, c) == SubSeq(v, 1, i) \o <<c>> \o SubSeq(v, i + 1, Len(v))

TruncateTo(v, n) == IF n >= Len(v) THEN v ELSE SubSeq(v, 1, n)

DrainRange(v, a, b) == SubSeq(v, 1, a) \o SubSeq(v, b + 1, Len(v))

\* LineEditor::new with the history load_history read
NewEditor(loaded) ==
    [buffer |-> <<>>, cursor |-> 0, history |-> loaded, history_idx |-> Len(loaded),
     saved_buffer |-> <<>>]

\* reset_state, and the assignments of the Ctrl-C arm
ResetState(e) ==
    [e EXCEPT !.buffer = <<>>, !.cursor = 0, !.history_idx = Len(e.history),
              !.saved_buffer = <<>>]

\* add_to_history
AddToHistory(e, ln) ==
    LET trimmed == Trim(ln)
        pushed == Append(e.history, trimmed)
    IN  IF trimmed = <<>> THEN e
        ELSE IF e.history # <<>> /\ e.history[Len(e.history)] = trimmed THEN e
        ELSE IF Len(pushed) > MaxHistory
        THEN [e EXCEPT !.history = SubSeq(pushed, Len(pushed) - MaxHistory + 1, Len(pushed))]
        ELSE [e EXCEPT !.history = pushed]

\* delete_at_cursor
DeleteAtCursor(e) ==
    IF e.cursor < Len(e.buffer)
    THEN [e EXCEPT !.buffer = RemoveAt(e.buffer, e.cursor)]
    ELSE e

\* delete_word_before_cursor: the two while loops
RECURSIVE SkipSpaces(_, _), SkipWord(_, _)
SkipSpaces(buf, end) ==
    IF end > 0 /\ buf[end] = 32 THEN SkipSpaces(buf, end - 1) ELSE end

SkipWord(buf, start) ==
    IF start > 0 /\ buf[start] # 32 THEN SkipWord(buf, start - 1) ELSE start

\* delete_word_before_cursor
DeleteWordBeforeCursor(e) ==
    IF e.cursor = 0 THEN e
    ELSE LET start == SkipWord(e.buffer, SkipSpaces(e.buffer, e.cursor))
         IN  [e EXCEPT !.buffer = DrainRange(e.buffer, start, e.cursor), !.cursor = start]

\* mutant: every Up takes the snapshot, not the first alone
HistoryPrev_SavesEveryTime(e) ==
    IF e.history = <<>> THEN e
    ELSE LET saved == [e EXCEPT !.saved_buffer = Collect(e.buffer)]
         IN  IF saved.history_idx > 0
             THEN [saved EXCEPT !.history_idx = @ - 1,
                                !.buffer = CharsOf(e.history[e.history_idx]),
                                !.cursor = Len(CharsOf(e.history[e.history_idx]))]
             ELSE saved

\* history_prev; history[history_idx - 1] of the code is the entry at
\* history_idx here, sequences being counted from 1
HistoryPrev(e) ==
    IF e.history = <<>> THEN e
    ELSE LET saved == IF e.history_idx = Len(e.history)
                      THEN [e EXCEPT !.saved_buffer = Collect(e.buffer)]
                      ELSE e
         IN  IF saved.history_idx > 0
             THEN [saved EXCEPT !.history_idx = @ - 1,
                                !.buffer = CharsOf(e.history[e.history_idx]),
                                !.cursor = Len(CharsOf(e.history[e.history_idx]))]
             ELSE saved

\* history_next
HistoryNext(e) ==
    IF e.history_idx >= Len(e.history) THEN e
    ELSE LET idx == e.history_idx + 1
             buf == IF idx = Len(e.history) THEN CharsOf(e.saved_buffer)
                    ELSE CharsOf(e.history[idx + 1])
         IN  [e EXCEPT !.history_idx = idx, !.buffer = buf, !.cursor = Len(buf)]

\* the keys: KeyCode with its modifiers
Key(code) == [code |-> code, c |-> 0]

CharKey(c) == [code |-> "Char", c |-> c]

Keys ==
    {Key(k) : k \in {"Enter", "CtrlD", "CtrlC", "CtrlL", "Home", "End", "CtrlK", "CtrlU",
                     "CtrlW", "Left", "Right", "Up", "Down", "Backspace", "Delete"}}
        \cup {CharKey(c) : c \in Chars}

\* handle_key: the editor after the key, for the arms that return Continue
HandleKey(e, key) ==
    IF key.code \in {"CtrlD", "Delete"} THEN DeleteAtCursor(e)
    ELSE IF key.code = "CtrlC" THEN ResetState(e)
    ELSE IF key.code = "Home" THEN [e EXCEPT !.cursor = 0]
    ELSE IF key.code = "End" THEN [e EXCEPT !.cursor = Len(e.buffer)]
    ELSE IF key.code = "CtrlK" THEN [e EXCEPT !.buffer = TruncateTo(e.buffer, e.cursor)]
    ELSE IF key.code = "CtrlU"
    THEN [e EXCEPT !.buffer = DrainRange(e.buffer, 0, e.cursor), !.cursor = 0]
    ELSE IF key.code = "CtrlW" THEN DeleteWordBeforeCursor(e)
    ELSE IF key.code = "Left"
    THEN (IF e.cursor > 0 THEN [e EXCEPT !.cursor = @ - 1] ELSE e)
    ELSE IF key.code = "Right"
    THEN (IF e.cursor < Len(e.buffer) THEN [e EXCEPT !.cursor = @ + 1] ELSE e)
    ELSE IF key.code = "Up" THEN HistoryPrev(e)
    ELSE IF key.code = "Down" THEN HistoryNext(e)
    ELSE IF key.code = "Backspace"
    THEN (IF e.cursor > 0
          THEN [e EXCEPT !.cursor = @ - 1, !.buffer = RemoveAt(e.buffer, e.cursor - 1)]
          ELSE e)
    ELSE IF key.code = "Char"
    THEN [e EXCEPT !.buffer = InsertAt(e.buffer, e.cursor, key.c), !.cursor = @ + 1]
    ELSE e

\* handle_key: what it returns
KeyAction(e, key) ==
    IF key.code = "Enter" THEN "Submit"
    ELSE IF key.code = "CtrlD" /\ e.buffer = <<>> THEN "Eof"
    ELSE "Continue"

\* nothing typed yet
NoneTyped == [at |-> "main", key |-> Key("none"), depth |-> 0, was |-> 0,
              in_progress |-> <<>>]

\* the editor model at rest
EditorIdle == editor = NewEditor(<<>>) /\ typed = NoneTyped

\* the codec model at rest
CodecIdle == codec = [raw |-> 0, classified |-> FALSE, exit_code |-> 0,
                      from_wait_status |-> 0, pipeline |-> 0]

\* the REPL model at rest
ReplIdle ==
    /\ pc = "idle"
    /\ job_table = NewJobTable
    /\ proc = <<>>
    /\ entries_left = 0
    /\ last_cmd = "start"
    /\ last_args = <<>>
    /\ printed = <<>>
    /\ added = <<>>
    /\ obs = NoObs
    /\ pgrp = <<>>
    /\ shutdown = NoShutdown
    /\ CdIdle
    /\ CodecIdle
    /\ EditorIdle

\* the line model at rest
LineIdle ==
    /\ line = <<>>
    /\ chain = <<>>
    /\ entry_i = 0
    /\ lpc = "idle"
    /\ ran = <<>>
    /\ start_code = 0

\* the resolver model at rest
RedirIdle ==
    /\ redirections = <<>>
    /\ defaults = [stdin |-> Inherit, stdout |-> Inherit, stderr |-> Inherit]
    /\ rpc = "idle"
    /\ resolved = Unresolved
    /\ resolved_again = Unresolved

\* the pipeline model at rest
PipeIdle ==
    /\ commands = <<>>
    /\ stage_idx = 0
    /\ ppc = "idle"
    /\ started = <<>>
    /\ last_status = 0
    /\ pipe_out = NoOutcome
    /\ children = <<>>
    /\ held = {}
    /\ remaining = {}
    /\ last_code = NoCode
    /\ threads = <<>>
    /\ mutations = {}
    /\ guards = <<>>
    /\ terminal = [isatty |-> TRUE, pgrp |-> ShellPgid]

FilesIdle == fs = NoFiles /\ fs0 = NoFiles

(***************************************************************************)
(* src/main.rs: the REPL loop                                              *)
(***************************************************************************)
ReplInit ==
    /\ pc = "top"
    /\ job_table = NewJobTable
    /\ proc = <<>>
    /\ last_exit_code = 0
    /\ entries_left = 0
    /\ background = FALSE
    /\ last_cmd = "start"
    /\ last_args = <<>>
    /\ printed = <<>>
    /\ added = <<>>
    /\ obs = NoObs
    /\ pgrp = <<>>
    /\ shutdown = NoShutdown
    /\ CdIdle
    /\ CodecIdle
    /\ EditorIdle

\* main.rs:67  job_table.reap() at the top of the loop
TopReap ==
    /\ pc = "top"
    /\ job_table' = Reap(job_table, proc)
    /\ proc' = ReapProcs(job_table, proc)
    /\ obs' = ObsDone(obs, ReapDoneIds(job_table, proc), "reap")
    /\ pc' = "read"
    /\ last_cmd' = "reap"
    /\ last_args' = <<>>
    /\ printed' = <<>>
    /\ UNCHANGED <<last_exit_code, entries_left, background, added>>
    /\ UNCHANGED <<pgrp, shutdown>>
    /\ UNCHANGED outsideRepl

\* main.rs:71-88  end of input or a read error ends the loop
ReadEof ==
    /\ pc = "read"
    /\ pc' = "exited"
    /\ last_cmd' = "eof"
    /\ last_args' = <<>>
    /\ printed' = <<>>
    /\ AfterLoop(last_exit_code)
    /\ UNCHANGED <<job_table, last_exit_code, entries_left, background, added, obs, pgrp>>
    /\ UNCHANGED outsideRepl

\* main.rs:81-83, 90-93, 133-135  an interrupted read or an empty line
ReadEmpty ==
    /\ pc = "read"
    /\ pc' = "top"
    /\ last_cmd' = "empty"
    /\ last_args' = <<>>
    /\ printed' = <<>>
    /\ UNCHANGED <<job_table, proc, last_exit_code, entries_left, background, added, obs>>
    /\ UNCHANGED <<pgrp, shutdown>>
    /\ UNCHANGED outsideRepl

\* main.rs:100-107, 124-131, 149-165  the line does not parse
ReadSyntaxError ==
    /\ pc = "read"
    /\ pc' = "top"
    /\ last_exit_code' = 2
    /\ last_cmd' = "syntax"
    /\ last_args' = <<>>
    /\ printed' = <<>>
    /\ UNCHANGED <<job_table, proc, entries_left, background, added, obs>>
    /\ UNCHANGED <<pgrp, shutdown>>
    /\ UNCHANGED outsideRepl

\* main.rs:112-118, 207-214  a line of n entries, with or without `&`, goes
\* to the entry loop (a line of several entries with `&` does not)
ReadLine ==
    /\ pc = "read"
    /\ \E n \in 1..MaxEntries, bg \in BOOLEAN :
        /\ ~(bg /\ n > 1)
        /\ entries_left' = n
        /\ background' = bg
    /\ pc' = "exec"
    /\ last_cmd' = "line"
    /\ last_args' = <<>>
    /\ printed' = <<>>
    /\ UNCHANGED <<job_table, proc, last_exit_code, added, obs>>
    /\ UNCHANGED <<pgrp, shutdown>>
    /\ UNCHANGED outsideRepl

\* main.rs:179-205  whole-chain background: one child shell, one job
BackgroundChain ==
    /\ pc = "read"
    /\ \/ /\ NextPid <= MaxProcs
          /\ proc' = Spawned(proc, NextPid)
          /\ pgrp' = MapInsert(pgrp, NextPid, ShellPgid)   \* no setpgid: the shell's group
          /\ job_table' = Add(job_table, NextPid)
          /\ added' = Append(added, job_table.next_id)
          /\ last_exit_code' = 0
       \/ /\ last_exit_code' = 1
          /\ UNCHANGED <<proc, pgrp, job_table, added>>
    /\ pc' = "top"
    /\ last_cmd' = "bgchain"
    /\ last_args' = <<>>
    /\ printed' = <<>>
    /\ UNCHANGED <<entries_left, background, obs, shutdown>>
    /\ UNCHANGED outsideRepl

\* main.rs:287-296  Continue(code): on to the next entry of the line
FinishEntry(code) ==
    /\ last_exit_code' = code
    /\ entries_left' = entries_left - 1
    /\ pc' = IF entries_left = 1 THEN "top" ELSE "exec"
    /\ UNCHANGED background

Executing == pc = "exec" /\ entries_left > 0

\* main.rs:234-267  a redirection without a file name, or an empty command:
\* $? = 2 and the rest of the line is dropped
EntrySyntaxError ==
    /\ Executing
    /\ last_exit_code' = 2
    /\ entries_left' = 0
    /\ pc' = "top"
    /\ last_cmd' = "entry_syntax"
    /\ last_args' = <<>>
    /\ printed' = <<>>
    /\ UNCHANGED <<job_table, proc, background, added, obs>>
    /\ UNCHANGED <<pgrp, shutdown>>
    /\ UNCHANGED outsideRepl

\* executor.rs:688-799  run_external without `&`, and run_foreground
RunExternalForeground ==
    /\ Executing /\ ~background
    /\ \/ \E code \in {1, 127} :            \* redirection or spawn failure
            /\ FinishEntry(code)
            /\ UNCHANGED <<job_table, proc, pgrp, added>>
       \/ /\ NextPid <= MaxProcs
          /\ pgrp' = MapInsert(pgrp, NextPid, NextPid)     \* setpgid(0, 0) in the child
          /\ \/ \E ws \in EndStatuses :     \* WaitOutcome::Exited(code)
                  /\ proc' = MapInsert(proc, NextPid, [st |-> "reaped", ws |-> ws])
                  /\ FinishEntry(ExitCodeFromWaitStatus(ws))
                  /\ UNCHANGED <<job_table, added>>
             \/ /\ proc' = MapInsert(proc, NextPid, [st |-> "stopped", ws |-> NoStatus])
                /\ job_table' = AddStoppedWithPgid(job_table, NextPid, NextPid)
                /\ added' = Append(added, job_table.next_id)
                /\ FinishEntry(0)
    /\ last_cmd' = "external"
    /\ last_args' = <<>>
    /\ printed' = <<>>
    /\ UNCHANGED <<obs, shutdown>>
    /\ UNCHANGED outsideRepl

\* executor.rs:791-796  run_external with `&`: the child becomes a job
RunExternalBackground ==
    /\ Executing /\ background
    /\ \/ \E code \in {1, 127} :
            /\ FinishEntry(code)
            /\ UNCHANGED <<job_table, proc, pgrp, added>>
       \/ /\ NextPid <= MaxProcs
          /\ proc' = Spawned(proc, NextPid)
          /\ pgrp' = MapInsert(pgrp, NextPid, NextPid)     \* setpgid(0, 0) in the child
          /\ job_table' = AddWithPgid(job_table, NextPid, NextPid)
          /\ added' = Append(added, job_table.next_id)
          /\ FinishEntry(0)
    /\ last_cmd' = "external_bg"
    /\ last_args' = <<>>
    /\ printed' = <<>>
    /\ UNCHANGED <<obs, shutdown>>
    /\ UNCHANGED outsideRepl

\* builtins.rs:350-364  builtin_jobs: reap, then list
RunJobs ==
    /\ Executing
    /\ job_table' = Reap(job_table, proc)
    /\ proc' = ReapProcs(job_table, proc)
    /\ obs' = ObsDone(obs, ReapDoneIds(job_table, proc), "jobs")
    /\ FinishEntry(0)
    /\ last_cmd' = "jobs"
    /\ last_args' = <<>>
    /\ printed' = <<>>
    /\ UNCHANGED added
    /\ UNCHANGED <<pgrp, shutdown>>
    /\ UNCHANGED outsideRepl

\* builtins.rs:367-437  builtin_fg
RunFg ==
    /\ Executing
    /\ \E arg \in JobArgs :
        LET job_id == ResolveJobId(arg, MostRecentId(job_table)) IN
        /\ last_args' = ArgList(arg)
        /\ IF job_id \notin DOMAIN job_table.jobs
           THEN /\ FinishEntry(1)
                /\ printed' = <<>>
                /\ UNCHANGED <<job_table, proc, obs>>
           ELSE LET pid == job_table.jobs[job_id].pid
                    pgid == job_table.jobs[job_id].pgid
                    t1 == [job_table EXCEPT !.jobs[job_id].status = Running]
                    p1 == Continued(proc, pgid, job_table)
                IN  IF p1[pid].st = "reaped"
                    THEN \* waitpid fails: the job stays, marked Running
                         /\ job_table' = t1
                         /\ proc' = p1
                         /\ printed' = <<JobLine("command", job_id)>>
                         /\ FinishEntry(1)
                         /\ UNCHANGED obs
                    ELSE \/ \E ws \in EndStatuses :
                               /\ p1[pid].st = "zombie" => ws = p1[pid].ws
                               /\ proc' = [p1 EXCEPT ![pid] = [st |-> "reaped", ws |-> ws]]
                               /\ job_table' = Remove(t1, job_id)
                               /\ obs' = ObsSilent(obs, job_id, "fg")
                               /\ printed' = <<JobLine("command", job_id)>>
                               /\ FinishEntry(ExitCodeFromWaitStatus(ws))
                         \/ /\ p1[pid].st # "zombie"
                            /\ proc' = [p1 EXCEPT ![pid].st = "stopped"]
                            /\ job_table' = [t1 EXCEPT !.jobs[job_id].status = Stopped]
                            /\ printed' = <<JobLine("command", job_id),
                                            JobLine("Stopped", job_id)>>
                            /\ FinishEntry(0)
                            /\ UNCHANGED obs
    /\ last_cmd' = "fg"
    /\ UNCHANGED added
    /\ UNCHANGED <<pgrp, shutdown>>
    /\ UNCHANGED outsideRepl

\* builtins.rs:463-496  builtin_bg
RunBg ==
    /\ Executing
    /\ \E arg \in JobArgs :
        LET job_id == ResolveJobId(arg, MostRecentStoppedId(job_table)) IN
        /\ last_args' = ArgList(arg)
        /\ IF job_id \notin DOMAIN job_table.jobs
           THEN /\ FinishEntry(1)
                /\ printed' = <<>>
                /\ UNCHANGED <<job_table, proc>>
           ELSE IF job_table.jobs[job_id].status # Stopped
           THEN /\ FinishEntry(1)
                /\ printed' = <<>>
                /\ UNCHANGED <<job_table, proc>>
           ELSE /\ proc' = Continued(proc, job_table.jobs[job_id].pgid, job_table)
                /\ job_table' = [job_table EXCEPT !.jobs[job_id].status = Running]
                /\ printed' = <<JobLine("&", job_id)>>
                /\ FinishEntry(0)
    /\ last_cmd' = "bg"
    /\ UNCHANGED <<added, obs>>
    /\ UNCHANGED <<pgrp, shutdown>>
    /\ UNCHANGED outsideRepl

\* the children a blocking wait may have to wait out
RunningPids(p) == {pid \in DOMAIN p : p[pid].st = "running"}

\* builtins.rs:499-532  builtin_wait
RunWait ==
    /\ Executing
    /\ \E fc \in [RunningPids(proc) -> EndStatuses] :
       \E args \in {<<>>} \cup WaitArgLists :
       \E order \in IF args = <<>> THEN Perms(RunningIds(job_table)) ELSE {<<>>} :
        LET s0 == [t |-> job_table, p |-> proc, o |-> obs,
                   last_status |-> 0, had_error |-> FALSE]
            ids == IF args = <<>>
                   THEN [i \in DOMAIN order |-> IdArg(order[i])]
                   ELSE args
            s == WaitArgs(s0, ids, fc)
        IN  /\ job_table' = s.t
            /\ proc' = s.p
            /\ obs' = s.o
            /\ FinishEntry(WaitCode(s))
            /\ last_args' = args
            /\ printed' = <<>>
    /\ last_cmd' = "wait"
    /\ UNCHANGED added
    /\ UNCHANGED <<pgrp, shutdown>>
    /\ UNCHANGED outsideRepl

\* builtins.rs:55-145  the builtins that leave the job table alone
RunOtherBuiltin ==
    /\ Executing
    /\ \E code \in {0, 1} : FinishEntry(code)
    /\ last_cmd' = "builtin"
    /\ last_args' = <<>>
    /\ printed' = <<>>
    /\ UNCHANGED <<job_table, proc, added, obs>>
    /\ UNCHANGED <<pgrp, shutdown>>
    /\ UNCHANGED outsideRepl

\* builtins.rs:108-119, main.rs:291-307  exit: the loop ends
RunExit ==
    /\ Executing
    /\ \E args \in ExitArgLists :
        LET act == BuiltinExit(args) IN
        /\ last_args' = args
        /\ printed' = act.message
        /\ last_exit_code' = act.code
        /\ AfterLoop(act.code)
    /\ pc' = "exited"
    /\ last_cmd' = "exit"
    /\ UNCHANGED <<job_table, entries_left, background, added, obs, pgrp>>
    /\ UNCHANGED outsideRepl

\* a running child ends by itself
ChildExits ==
    /\ pc # "exited"
    /\ \E pid \in DOMAIN proc, ws \in EndStatuses :
        /\ proc[pid].st = "running"
        /\ proc' = [proc EXCEPT ![pid] = [st |-> "zombie", ws |-> ws]]
    /\ UNCHANGED <<pc, job_table, last_exit_code, entries_left, background,
                   last_cmd, last_args, printed, added, obs>>
    /\ UNCHANGED <<pgrp, shutdown>>
    /\ UNCHANGED outsideRepl

(***************************************************************************)
(* src/parser.rs: words and the tokenizer.  An input line is a sequence    *)
(* whose elements are the characters ' ', '&', '|', ';', '"' and '>' and   *)
(* runs of ordinary characters ("false", "echo", ...); a run is fed to the *)
(* tokenizer as the characters it stands for.  The lines drawn hold no     *)
(* single quote, backslash or '<', and a '>' is followed by a blank or by  *)
(* the end of the line, so those arms of tokenize and the longer operators *)
(* of consume_redirect_op are left out.                                    *)
(***************************************************************************)
Unquoted(s) == [kind |-> "Unquoted", text |-> s]
DoubleQuoted(s) == [kind |-> "DoubleQuoted", text |-> s]

\* a Word of one unquoted segment
WordOf(s) == <<Unquoted(s)>>

\* the locals of tokenize before the first character
TokenizeStart ==
    [words |-> <<>>, current_segment |-> "", current_word |-> <<>>, state |-> "Normal"]

\* "finish current unquoted segment and word"
FlushWord(t) ==
    LET cw == IF t.current_segment # ""
              THEN Append(t.current_word, Unquoted(t.current_segment))
              ELSE t.current_word
    IN  [t EXCEPT !.words = IF cw # <<>> THEN Append(@, cw) ELSE @,
                  !.current_segment = "",
                  !.current_word = <<>>]

\* "flush unquoted segment, switch to double quotes"
FlushSegment(t) ==
    [t EXCEPT !.current_word = IF t.current_segment # ""
                               THEN Append(@, Unquoted(t.current_segment))
                               ELSE @,
              !.current_segment = ""]

\* one turn of the loop of tokenize: the arms for (state, ch)
TokenizeChar(t, ch) ==
    IF t.state = "Normal"
    THEN IF ch = " " THEN t
         ELSE IF ch = "\"" THEN [t EXCEPT !.state = "InDoubleQuote"]
         ELSE IF ch \in {"|", "&", ">"}
         THEN [t EXCEPT !.words = Append(@, WordOf(ch))]
         ELSE [t EXCEPT !.current_segment = @ \o ch, !.state = "InWord"]
    ELSE IF t.state = "InWord"
    THEN IF ch = " " THEN [FlushWord(t) EXCEPT !.state = "Normal"]
         ELSE IF ch = "\"" THEN [FlushSegment(t) EXCEPT !.state = "InDoubleQuote"]
         ELSE IF ch \in {"|", "&", ">"}
         THEN [FlushWord(t) EXCEPT !.words = Append(FlushWord(t).words, WordOf(ch)),
                                   !.state = "Normal"]
         ELSE [t EXCEPT !.current_segment = @ \o ch]
    ELSE IF ch = "\""
         THEN [t EXCEPT !.current_word = Append(@, DoubleQuoted(t.current_segment)),
                        !.current_segment = "",
                        !.state = "InWord"]
         ELSE [t EXCEPT !.current_segment = @ \o ch]

RECURSIVE TokenizeFrom(_, _)
TokenizeFrom(t, input) ==
    IF input = <<>> THEN t
    ELSE TokenizeFrom(TokenizeChar(t, Head(input)), Tail(input))

\* tokenize is Err when the line ends inside a quote
TokenizeOk(input) == TokenizeFrom(TokenizeStart, input).state # "InDoubleQuote"

\* tokenize: the words of the line ("flush remaining segment and word")
Tokenize(input) == FlushWord(TokenizeFrom(TokenizeStart, input)).words

IsPipeWord(w) == Len(w) = 1 /\ w[1] = Unquoted("|")

IsBackgroundWord(w) == Len(w) = 1 /\ w[1] = Unquoted("&")

\* split_pipeline, the loop: `ok` falls when a '|' has no command before it
RECURSIVE SplitPipelineFrom(_, _)
SplitPipelineFrom(s, words) ==
    IF words = <<>> \/ ~s.ok THEN s
    ELSE IF IsPipeWord(Head(words))
    THEN IF s.current = <<>>
         THEN [s EXCEPT !.ok = FALSE]
         ELSE SplitPipelineFrom([s EXCEPT !.commands = Append(@, s.current),
                                          !.current = <<>>], Tail(words))
    ELSE SplitPipelineFrom([s EXCEPT !.current = Append(@, Head(words))], Tail(words))

\* split_pipeline: Err when a '|' lacks a command on either side
SplitPipeline(words) ==
    LET s == SplitPipelineFrom([ok |-> TRUE, commands |-> <<>>, current |-> <<>>], words)
    IN  IF ~s.ok \/ s.current = <<>>
        THEN [ok |-> FALSE, commands |-> <<>>]
        ELSE [ok |-> TRUE, commands |-> Append(s.commands, s.current)]

(***************************************************************************)
(* src/script_parser.rs: the chain splitter                                *)
(***************************************************************************)
\* chain_op: the connector of an operator word, "None" for any other word
ChainOp(w) ==
    IF Len(w) # 1 \/ w[1].kind # "Unquoted" THEN "None"
    ELSE IF w[1].text = "&&" THEN "And"
    ELSE IF w[1].text = "||" THEN "Or"
    ELSE IF w[1].text = ";" THEN "Sequence"
    ELSE "None"

\* parse_chain, the loop
RECURSIVE ParseChainFrom(_, _)
ParseChainFrom(s, words) ==
    IF words = <<>> \/ ~s.ok THEN s
    ELSE IF ChainOp(Head(words)) # "None"
    THEN IF s.current = <<>>
         THEN [s EXCEPT !.ok = FALSE]
         ELSE ParseChainFrom(
                [s EXCEPT !.entries = Append(@, [words |-> s.current,
                                                 connector |-> s.next_connector]),
                          !.current = <<>>,
                          !.next_connector = ChainOp(Head(words))],
                Tail(words))
    ELSE ParseChainFrom([s EXCEPT !.current = Append(@, Head(words))], Tail(words))

\* parse_chain: Err for a leading, doubled or trailing operator
ParseChain(words) ==
    LET s == ParseChainFrom([ok |-> TRUE, entries |-> <<>>, current |-> <<>>,
                             next_connector |-> "Sequence"], words)
    IN  IF ~s.ok THEN [ok |-> FALSE, entries |-> <<>>]
        ELSE IF s.current = <<>>
        THEN [ok |-> s.entries = <<>>, entries |-> <<>>]
        ELSE [ok |-> TRUE,
              entries |-> Append(s.entries, [words |-> s.current,
                                             connector |-> s.next_connector])]

(***************************************************************************)
(* src/main.rs: one input line, from the words to the chain driver         *)
(***************************************************************************)

\* the text of a word: the texts of its segments, joined
RECURSIVE WordText(_)
WordText(w) == IF w = <<>> THEN "" ELSE w[1].text \o WordText(Tail(w))

\* mutant: no validation up front; an entry whose pipeline is malformed is
\* kept as one command
PreValidate_Lazy(entries) ==
    [ok |-> TRUE,
     list |-> [k \in DOMAIN entries |->
                  [pipeline_words |-> IF SplitPipeline(entries[k].words).ok
                                      THEN SplitPipeline(entries[k].words).commands
                                      ELSE <<entries[k].words>>,
                   connector |-> entries[k].connector]]]

\* Phase 1: split_pipeline on every entry, before anything runs
PreValidate(entries) ==
    LET sp == [k \in DOMAIN entries |-> SplitPipeline(entries[k].words)]
    IN  IF \E k \in DOMAIN entries : ~sp[k].ok
        THEN [ok |-> FALSE, list |-> <<>>]
        ELSE [ok |-> TRUE,
              list |-> [k \in DOMAIN entries |->
                            [pipeline_words |-> sp[k].commands,
                             connector |-> entries[k].connector]]]

\* mutant: the tests of And and Or are exchanged
ShouldRun_AndOrSwapped(connector, code) ==
    IF connector = "Sequence" THEN TRUE
    ELSE IF connector = "And" THEN code # 0
    ELSE code = 0

\* mutant: an entry joined by Or is never skipped
ShouldRun_OrAlways(connector, code) ==
    IF connector = "Sequence" THEN TRUE
    ELSE IF connector = "And" THEN code = 0
    ELSE TRUE

\* Phase 3: should_run
ShouldRun(connector, code) ==
    IF connector = "Sequence" THEN TRUE
    ELSE IF connector = "And" THEN code = 0
    ELSE code # 0

\* expand_words on one word: its fields (the working directory holds the
\* files a and b, which the glob `*` matches)
Fields(word) == IF word = WordOf("*") THEN <<"a", "b">> ELSE <<WordText(word)>>

\* extract_redirections_from_words, the loop; of the operators only `>` is
\* drawn.  extract_target: no word behind the operator is a syntax error,
\* a word of several fields an ambiguous target
RECURSIVE ExtractFrom(_, _)
ExtractFrom(s, words) ==
    IF words = <<>> \/ s.err # "none" THEN s
    ELSE IF Head(words) = WordOf(">")
    THEN IF Len(words) < 2 THEN [s EXCEPT !.err = "expected filename"]
         ELSE IF Len(Fields(words[2])) # 1 THEN [s EXCEPT !.err = "ambiguous redirect target"]
         ELSE ExtractFrom([s EXCEPT !.redirections = Append(@, ToFile(1, Fields(words[2])[1]))],
                          SubSeq(words, 3, Len(words)))
    ELSE ExtractFrom([s EXCEPT !.args = Append(@, Head(words))], Tail(words))

ExtractRedirectionsFromWords(words) ==
    ExtractFrom([err |-> "none", args |-> <<>>, redirections |-> <<>>], words)

\* main.rs:233-253  what the loop over the segments reports for a segment
SegmentError(segment_words) ==
    LET x == ExtractRedirectionsFromWords(segment_words)
    IN  IF x.err # "none" THEN x.err
        ELSE IF x.args = <<>> THEN "empty command"
        ELSE "none"

ExtractError(segment_words) == SegmentError(segment_words) # "none"

\* the error of the first segment that has one
EntryError(pipeline_words) ==
    LET bad == {k \in DOMAIN pipeline_words : ExtractError(pipeline_words[k])}
    IN  IF bad = {} THEN "none"
        ELSE SegmentError(pipeline_words[CHOOSE k \in bad : \A j \in bad : k <= j])

\* a file in a directory that does not exist cannot be opened
OpenFails(path) == path = "nodir/f"

\* the redirections of every command of an entry
RedirectionsOf(pipeline_words) ==
    UNION {Range(ExtractRedirectionsFromWords(pipeline_words[k]).redirections) :
              k \in DOMAIN pipeline_words}

\* resolve_redirections fails for a command of the entry
SetupFails(pipeline_words) == \E r \in RedirectionsOf(pipeline_words) : OpenFails(r.path)

\* the files the redirections of the entry create or truncate
OpenedBy(pipeline_words) ==
    {r.path : r \in {q \in RedirectionsOf(pipeline_words) : ~OpenFails(q.path)}}

\* a diagnostic on stderr
Diagnostic(m) == [k |-> "jsh", id |-> m]

\* the program of every command of an entry
Programs(pipeline_words) ==
    [k \in DOMAIN pipeline_words |-> WordText(pipeline_words[k][1])]

\* the code a program of the model ends with: /bin/false fails, /bin/true
\* and echo succeed, any other name is not found
ProgramCode(program) ==
    IF program = "false" THEN 1
    ELSE IF program \in {"true", "echo"} THEN 0
    ELSE 127

IsBuiltin(program) ==
    program \in {"cd", "pwd", "exit", "echo", "export", "unset", "type",
                 "jobs", "fg", "bg", "wait", "help"}

\* executor::execute and executor::execute_pipeline as the driver sees
\* them: the action returned, and whether a background job was added
ExecuteEntry(pipeline_words, entry_background) ==
    LET progs == Programs(pipeline_words)
        n == Len(progs)
        found == \A k \in 1..n : ProgramCode(progs[k]) # 127
        externals == \E k \in 1..n : ~IsBuiltin(progs[k])
    IN  IF n = 1 /\ SetupFails(pipeline_words)
        THEN [kind |-> "Continue", code |-> 1, job |-> FALSE]
        ELSE IF n = 1 /\ progs[1] = "exit"
        THEN [kind |-> "Exit",
              code |-> IF Len(pipeline_words[1]) = 1 THEN 0 ELSE 2,
              job  |-> FALSE]
        ELSE IF n > 1 /\ \E k \in 1..n : progs[k] = "exit"
        THEN [kind |-> "Continue", code |-> 1, job |-> FALSE]
        ELSE IF SetupFails(pipeline_words)
        THEN [kind |-> "Continue", code |-> 1, job |-> FALSE]
        ELSE IF ~found
        THEN [kind |-> "Continue", code |-> 127, job |-> FALSE]
        ELSE IF entry_background /\ (n > 1 \/ externals)
        THEN [kind |-> "Continue", code |-> 0, job |-> externals]
        ELSE [kind |-> "Continue", code |-> ProgramCode(progs[n]), job |-> FALSE]

\* main.rs:119-121  command_text: trimmed.trim_end_matches('&' or ' ')
RECURSIVE TrimEndMatches(_)
TrimEndMatches(l) ==
    IF l # <<>> /\ l[Len(l)] \in {"&", " "}
    THEN TrimEndMatches(SubSeq(l, 1, Len(l) - 1))
    ELSE l

\* main.rs:98-205  the line is tokenized, a trailing `&` is stripped, the
\* words are split into a chain, every entry is pre-validated, and a chain
\* of several entries with `&` goes to a child shell as one job
ProcessLine ==
    /\ lpc = "read"
    /\ LET all == IF TokenizeOk(line) THEN Tokenize(line) ELSE <<>>
           bg == all # <<>> /\ IsBackgroundWord(all[Len(all)])
           words == IF bg THEN SubSeq(all, 1, Len(all) - 1) ELSE all
           parsed == ParseChain(words)
           pre_validated == PreValidate(parsed.entries)
           command_text == TrimEndMatches(line)
       IN  /\ background' = bg
           /\ IF ~TokenizeOk(line) \/ ~parsed.ok \/ ~pre_validated.ok
              THEN /\ last_exit_code' = 2
                   /\ lpc' = "syntax"
                   /\ chain' = <<>>
                   /\ last_cmd' = "line"
                   /\ last_args' = <<>>
                   /\ printed' = <<Diagnostic(IF ~TokenizeOk(line) THEN "unterminated double quote"
                                              ELSE IF ~parsed.ok THEN "chain operator"
                                              ELSE "pipeline")>>
                   /\ UNCHANGED <<job_table, proc, added>>
              ELSE IF parsed.entries = <<>>
              THEN /\ lpc' = "done"
                   /\ chain' = <<>>
                   /\ last_cmd' = "line"
                   /\ last_args' = <<>>
                   /\ printed' = <<>>
                   /\ UNCHANGED <<last_exit_code, job_table, proc, added>>
              ELSE IF bg /\ Len(pre_validated.list) > 1
              THEN /\ chain' = pre_validated.list
                   /\ lpc' = "backgrounded"
                   /\ last_cmd' = "bgchain"
                   /\ \/ /\ proc' = Spawned(proc, NextPid)
                         /\ last_args' = <<command_text>>    \* written to the child's stdin
                         /\ job_table' = Add(job_table, NextPid)
                         /\ added' = Append(added, job_table.next_id)
                         /\ printed' = <<JobAnnounce(job_table.next_id, NextPid)>>
                         /\ last_exit_code' = 0
                      \/ /\ last_exit_code' = 1
                         /\ last_args' = <<>>
                         /\ printed' = <<>>
                         /\ UNCHANGED <<job_table, proc, added>>
              ELSE /\ chain' = pre_validated.list
                   /\ lpc' = "loop"
                   /\ last_cmd' = "line"
                   /\ last_args' = <<>>
                   /\ printed' = <<>>
                   /\ UNCHANGED <<last_exit_code, job_table, proc, added>>
    /\ entry_i' = 1
    /\ UNCHANGED <<line, ran, start_code, fs>>
    /\ UNCHANGED outsideLine

\* main.rs:214-297  one turn of the loop over pre_validated
ChainStep ==
    /\ lpc = "loop"
    /\ entry_i <= Len(chain)
    /\ LET e == chain[entry_i]
           should_run == ShouldRun(e.connector, last_exit_code)
           entry_background == background /\ entry_i = 1
           action == ExecuteEntry(e.pipeline_words, entry_background)
           onward == IF entry_i < Len(chain) THEN "loop" ELSE "done"
           Rec(run, outcome, after) ==
               [connector |-> e.connector, before |-> last_exit_code,
                run |-> run, outcome |-> outcome, after |-> after,
                programs |-> Programs(e.pipeline_words)]
       IN  IF ~should_run
           THEN /\ ran' = Append(ran, Rec(FALSE, "skipped", last_exit_code))
                /\ lpc' = onward
                /\ printed' = <<>>
                /\ UNCHANGED <<last_exit_code, job_table, proc, added, fs>>
           ELSE IF EntryError(e.pipeline_words) # "none"
           THEN /\ ran' = Append(ran, Rec(TRUE, "syntax", 2))
                /\ last_exit_code' = 2
                /\ lpc' = "broke"
                /\ printed' = <<Diagnostic(EntryError(e.pipeline_words))>>
                /\ UNCHANGED <<job_table, proc, added, fs>>
           ELSE /\ ran' = Append(ran, Rec(TRUE, action.kind, action.code))
                /\ last_exit_code' = action.code
                /\ fs' = [p \in DOMAIN fs |->
                            IF p \in OpenedBy(e.pipeline_words) THEN "empty" ELSE fs[p]]
                /\ lpc' = IF action.kind = "Exit" THEN "exited" ELSE onward
                /\ IF action.job
                   THEN /\ proc' = Spawned(proc, NextPid)
                        /\ job_table' = AddWithPgid(job_table, NextPid, NextPid)
                        /\ added' = Append(added, job_table.next_id)
                        /\ printed' = <<JobAnnounce(job_table.next_id, NextPid)>>
                   ELSE /\ printed' = <<>>
                        /\ UNCHANGED <<job_table, proc, added>>
    /\ last_cmd' = "entry"
    /\ last_args' = <<>>
    /\ entry_i' = entry_i + 1
    /\ UNCHANGED <<line, chain, background, start_code>>
    /\ UNCHANGED outsideLine

(***************************************************************************)
(* SpecChain: the driver over every chain parse_chain and split_pipeline   *)
(* can hand it, whatever the words were.                                   *)
(***************************************************************************)
Connectors == {"Sequence", "And", "Or"}

\* the pipelines of the chains drawn: true, false, exit, a redirection
\* operator without a file name, `false | true`, and `true` with its output
\* sent to a file, to a file that cannot be opened and to `*`
ChainPipelines ==
    {<<<<WordOf(p)>>>> : p \in {"true", "false", "exit", ">"}}
        \cup {<<<<WordOf("false")>>, <<WordOf("true")>>>>}
        \cup {<<<<WordOf("true"), WordOf(">"), WordOf(t)>>>> : t \in {"f", "nodir/f", "*"}}

ChainEntries == [pipeline_words : ChainPipelines, connector : Connectors]

\* parse_chain gives the first entry the connector Sequence
Chains ==
    {c \in UNION {[1..n -> ChainEntries] : n \in 1..MaxChain} :
        c[1].connector = "Sequence"}

ChainInit ==
    /\ ReplIdle /\ RedirIdle /\ PipeIdle /\ FilesIdle
    /\ line = <<>>
    /\ chain \in Chains
    /\ background \in BOOLEAN
    /\ background => Len(chain) = 1
    /\ last_exit_code \in {0, 1}
    /\ start_code = last_exit_code
    /\ entry_i = 1
    /\ lpc = "loop"
    /\ ran = <<>>

ChainNext == ChainStep

SpecChain == ChainInit /\ [][ChainNext]_vars

\* the $? an entry meets: the code left by the last entry that ran before
\* it, or the code before the line
RECURSIVE CodeBefore(_)
CodeBefore(k) ==
    IF k = 1 THEN start_code
    ELSE IF ran[k - 1].run THEN ran[k - 1].after
    ELSE CodeBefore(k - 1)

\* C1: the driver considers the entries in order; an entry joined by
\* Sequence runs, one joined by And runs iff $? is 0 and one joined by Or
\* runs iff $? is not 0, where $? is the code left by the entry that ran
\* last (the code before the line for the first entry).
C1_ConnectorDecidesRun ==
    /\ Len(ran) <= Len(chain)
    /\ lpc = "loop" => Len(ran) = entry_i - 1
    /\ lpc = "done" => Len(ran) = Len(chain)
    /\ \A k \in DOMAIN ran :
        /\ ran[k].connector = chain[k].connector
        /\ ran[k].programs = Programs(chain[k].pipeline_words)
        /\ ran[k].before = CodeBefore(k)
        /\ ran[k].run <=>
              \/ ran[k].connector = "Sequence"
              \/ ran[k].connector = "And" /\ ran[k].before = 0
              \/ ran[k].connector = "Or" /\ ran[k].before # 0
    /\ ran # <<>> /\ ran[Len(ran)].run => last_exit_code = ran[Len(ran)].after

\* C1 witness: in one chain an And entry was skipped after a failure and
\* the Or entry behind it ran
C1_Witness ==
    \E j, k \in DOMAIN ran :
        /\ j < k
        /\ ran[j].connector = "And" /\ ~ran[j].run /\ ran[j].before # 0
        /\ ran[k].connector = "Or" /\ ran[k].run

(***************************************************************************)
(* SpecLine: one line typed at the prompt goes through the tokenizer, the  *)
(* chain splitter, the pre-validation and the driver.                      *)
(***************************************************************************)
\* the commands of the lines drawn, as typed
LineCommands ==
    {<<"false">>, <<"true">>, <<"echo", " ", "skipped">>, <<"echo", " ", "ran">>,
     <<"|", " ", "true">>, <<"echo", " ", "\"", "x">>, <<"echo", " ", ">">>,
     <<"true", " ", ">", " ", "f">>, <<"true", " ", ">", " ", "nodir/f">>,
     <<"true", " ", ">", " ", "*">>}

\* what stands between two commands: && || ; | with blanks around them
LineOperators ==
    {<<" ", "&", "&", " ">>, <<" ", "|", "|", " ">>, <<" ", ";", " ">>, <<" ", "|", " ">>}

\* the end of a line: nothing, or a blank and `&`
LineEnds == {<<>>, <<" ", "&">>}

RECURSIVE LinesOf(_)
LinesOf(n) ==
    IF n = 1 THEN LineCommands
    ELSE {l \o op \o c : l \in LinesOf(n - 1), op \in LineOperators, c \in LineCommands}

Lines == {l \o e : l \in UNION {LinesOf(n) : n \in 1..MaxChain}, e \in LineEnds}

LineInit ==
    /\ ReplIdle /\ RedirIdle /\ PipeIdle /\ FilesIdle
    /\ line \in Lines
    /\ chain = <<>>
    /\ background = FALSE
    /\ last_exit_code \in {0, 1}
    /\ start_code = last_exit_code
    /\ entry_i = 0
    /\ lpc = "read"
    /\ ran = <<>>

LineNext == ProcessLine \/ ChainStep

SpecLine == LineInit /\ [][LineNext]_vars

\* false && echo skipped || echo ran
ScenarioLine ==
    <<"false", " ", "&", "&", " ", "echo", " ", "skipped",
      " ", "|", "|", " ", "echo", " ", "ran">>

\* the operators && and || written in a line, in order
RECURSIVE AndOrOperators(_)
AndOrOperators(l) ==
    IF Len(l) < 2 THEN <<>>
    ELSE IF l[1] = "&" /\ l[2] = "&" THEN <<"And">> \o AndOrOperators(SubSeq(l, 3, Len(l)))
    ELSE IF l[1] = "|" /\ l[2] = "|" THEN <<"Or">> \o AndOrOperators(SubSeq(l, 3, Len(l)))
    ELSE AndOrOperators(Tail(l))

\* a line whose commands are separated by && and || only
AndOrLine(l) ==
    /\ \A i \in DOMAIN l : l[i] # ";"
    /\ \A i \in DOMAIN l : l[i] = "|" =>
            \/ i > 1 /\ l[i - 1] = "|"
            \/ i < Len(l) /\ l[i + 1] = "|"
    /\ l[Len(l)] # "&"
    /\ AndOrOperators(l) # <<>>

\* the programs of the entries that ran, in order
RanPrograms == [k \in DOMAIN SelectSeq(ran, LAMBDA r : r.run) |->
                    SelectSeq(ran, LAMBDA r : r.run)[k].programs]

\* C2: once a line whose commands are separated by && and || has been
\* split, the chain has one entry per command, the first joined by
\* Sequence and every later one by the connector of the operator before
\* it; and when the line `false && echo skipped || echo ran` is done,
\* false and echo (ran) have run, echo (skipped) has not, and $? is 0.
C2_AndOrLineSplitPerCommand ==
    /\ (lpc # "read" /\ AndOrLine(line)) =>
            /\ Len(chain) = Len(AndOrOperators(line)) + 1
            /\ chain[1].connector = "Sequence"
            /\ \A k \in 2..Len(chain) :
                    chain[k].connector = AndOrOperators(line)[k - 1]
    /\ (line = ScenarioLine /\ lpc \notin {"read", "loop"}) =>
            /\ lpc = "done"
            /\ Len(ran) = 3
            /\ ran[1].run /\ ~ran[2].run /\ ran[3].run
            /\ RanPrograms = << <<"false">>, <<"echo">> >>
            /\ last_exit_code = 0

Init == ReplInit /\ LineIdle /\ RedirIdle /\ PipeIdle /\ FilesIdle

Next ==
    \/ TopReap \/ ReadEof \/ ReadEmpty \/ ReadSyntaxError \/ ReadLine
    \/ BackgroundChain \/ EntrySyntaxError
    \/ RunExternalForeground \/ RunExternalBackground
    \/ RunJobs \/ RunFg \/ RunBg \/ RunWait \/ RunOtherBuiltin \/ RunExit
    \/ ChildExits

Spec == Init /\ [][Next]_vars

TypeOK ==
    /\ pc \in {"top", "read", "exec", "exited"}
    /\ \A id \in DOMAIN job_table.jobs : job_table.jobs[id].pid \in DOMAIN proc

(***************************************************************************)
(* Claims about the job table, checked under Spec.                         *)
(***************************************************************************)

\* C3: the first job ever added has id 1, every job added later has an id
\* greater than the id of every job added before it (removed or not), and
\* the jobs of the table carry pairwise different ids.
C3_JobIdsStrictlyIncreasing ==
    /\ added # <<>> => added[1] = 1
    /\ \A i, j \in DOMAIN added : i < j => added[i] < added[j]
    /\ \A a \in DOMAIN job_table.jobs :
        /\ job_table.jobs[a].id = a
        /\ a \in Range(added)
    /\ \A a, b \in DOMAIN job_table.jobs :
        a # b => job_table.jobs[a].id # job_table.jobs[b].id

\* C3 witness: a second job was added after the first one had been removed
C3_Witness ==
    /\ Len(added) >= 2
    /\ added[1] \notin DOMAIN job_table.jobs
    /\ added[2] \in DOMAIN job_table.jobs

\* C4 as stated: whichever operation saw the job end (reap, jobs, wait or
\* fg), exactly one Done line was printed for it.
C4_DoneLineWhoeverObserves ==
    \A id \in JobIds :
        obs[id].seen \in {"reap", "jobs", "wait", "fg"} => obs[id].lines = 1

\* C4 amended: at most one Done line is printed per job; a job whose end
\* was seen by the between-prompt reap, by jobs or by wait has exactly one,
\* printed by that operation once its child had ended and together with its
\* removal from the table; a job whose end was seen by fg has none.
C4_DoneLineOnceExceptFg ==
    \A id \in JobIds :
        /\ obs[id].lines <= 1
        /\ obs[id].seen \in {"reap", "jobs", "wait"} =>
                obs[id].lines = 1 /\ obs[id].by = obs[id].seen
        /\ obs[id].seen = "fg" => obs[id].lines = 0
        /\ obs[id].lines = 1 =>
                /\ id \in Range(added)
                /\ id \notin DOMAIN job_table.jobs
        /\ obs[id].seen = "none" => obs[id].lines = 0

\* C4 witness: one job ended under fg, another had its Done line printed
C4_Witness ==
    \E a, b \in JobIds :
        /\ obs[a].seen = "fg" /\ obs[a].lines = 0
        /\ obs[b].seen \in {"reap", "jobs", "wait"} /\ obs[b].lines = 1

\* C5: no job of the table has status Done when an operation on the table
\* (reap, jobs, fg, bg, wait, add) starts or has ended.
C5_NoDoneJobInTable ==
    \A id \in DOMAIN job_table.jobs : job_table.jobs[id].status.tag # "Done"

\* C5 witness: reap has just marked a finished job Done and removed it,
\* while another job is still in the table
C5_Witness ==
    /\ last_cmd \in {"reap", "jobs"}
    /\ \E id \in JobIds : obs[id].seen = last_cmd /\ id \notin DOMAIN job_table.jobs
    /\ DOMAIN job_table.jobs # {}

\* a step keeps every job that was in the table, as it was
ExistingJobsKept ==
    \A id \in DOMAIN job_table.jobs :
        /\ id \in DOMAIN job_table'.jobs
        /\ job_table'.jobs[id] = job_table.jobs[id]

\* C6 as stated: while a line is being executed no job is reaped; a
\* command of the line other than fg, bg and wait leaves every job alone.
C6_ReapOnlyBetweenLines ==
    [][(pc = "exec" /\ last_cmd' \notin {"fg", "bg", "wait"}) => ExistingJobsKept]_vars

\* C6 amended: a job leaves the table or changes status only in the reap
\* at the top of the loop or, while a line is executed, in jobs (which
\* reaps before it lists), fg, bg or wait; Done lines are printed nowhere
\* else.
C6_ReapAtTopOrInJobs ==
    [][\/ ExistingJobsKept /\ \A id \in JobIds : obs'[id].lines = obs[id].lines
       \/ pc = "top" /\ last_cmd' = "reap"
       \/ pc = "exec" /\ last_cmd' \in {"jobs", "fg", "bg", "wait"}]_vars

\* C6 witness: jobs has reaped a finished job in the middle of a line
C6_Witness ==
    /\ pc = "exec"
    /\ last_cmd = "jobs"
    /\ \E id \in JobIds : obs[id].by = "jobs"

(***************************************************************************)
(* SpecRedir: resolve_redirections over every short list of redirections,  *)
(* applied to the defaults and then once more to its own result.           *)
(***************************************************************************)

\* > f   >> f   2> g   2>&1   1>&2   1>&1   < f   > /dev/null   0>&1
Redirs ==
    {ToFile(1, "f"), ToFileAppend(1, "f"), ToFile(2, "g"), Dup(2, 1), Dup(1, 2),
     Dup(1, 1), FromFile("f"), ToFile(1, NullDevice), Dup(0, 1)}

RedirLists == UNION {[1..n -> Redirs] : n \in 0..MaxRedirs}

\* the defaults the executor passes: stdin and stdout are inherited or an
\* end of a pipe, stderr is inherited
DefaultTriples == [stdin : {Inherit, Pipe}, stdout : {Inherit, Pipe}, stderr : {Inherit}]

RedirInit ==
    /\ ReplIdle /\ LineIdle /\ PipeIdle
    /\ last_exit_code = 0
    /\ background = FALSE
    /\ redirections \in RedirLists
    /\ defaults \in DefaultTriples
    /\ fs \in {NoFiles, [NoFiles EXCEPT !["f"] = "data"]}
    /\ fs0 = fs
    /\ rpc = "start"
    /\ resolved = Unresolved
    /\ resolved_again = Unresolved

\* resolve_redirections(L, D)
ResolveOnce ==
    /\ rpc = "start"
    /\ LET s == Resolve(redirections, defaults, fs)
       IN  /\ resolved' = Resolved(s)
           /\ fs' = s.fs
    /\ rpc' = "once"
    /\ UNCHANGED <<redirections, defaults, resolved_again>>
    /\ UNCHANGED outsideRedir

\* resolve_redirections(L, D') where D' is the triple resolved before
ResolveAgain ==
    /\ rpc = "once"
    /\ resolved.ok
    /\ LET s == Resolve(redirections,
                        [stdin |-> resolved.stdin, stdout |-> resolved.stdout,
                         stderr |-> resolved.stderr], fs)
       IN  /\ resolved_again' = Resolved(s)
           /\ fs' = s.fs
    /\ rpc' = "twice"
    /\ UNCHANGED <<redirections, defaults, resolved>>
    /\ UNCHANGED outsideRedir

RedirNext == ResolveOnce \/ ResolveAgain

SpecRedir == RedirInit /\ [][RedirNext]_vars

\* what a redirection of stdout or stderr to a file opens
Opened(r) ==
    IF IsNullDevice(r.path) THEN Null ELSE File(r.path, r.target = "FileAppend")

\* where stdout and stderr point once the first n redirections of L are
\* applied, read backwards from position n
RECURSIVE StdoutAt(_, _, _), StderrAt(_, _, _)
StdoutAt(L, D, n) ==
    IF n = 0 THEN D.stdout
    ELSE IF L[n].fd = 1 /\ L[n].target \in {"File", "FileAppend"} THEN Opened(L[n])
    ELSE IF L[n].fd = 1 /\ L[n].target = "Fd" /\ L[n].n = 2 THEN StderrAt(L, D, n - 1)
    ELSE StdoutAt(L, D, n - 1)

StderrAt(L, D, n) ==
    IF n = 0 THEN D.stderr
    ELSE IF L[n].fd = 2 /\ L[n].target \in {"File", "FileAppend"} THEN Opened(L[n])
    ELSE IF L[n].fd = 2 /\ L[n].target = "Fd" /\ L[n].n = 1 THEN StdoutAt(L, D, n - 1)
    ELSE StderrAt(L, D, n - 1)

\* C9: the list is applied left to right and 2>&1 gives stderr the handle
\* stdout holds at that position of the list: after `> f 2>&1` stdout and
\* stderr are both the file f, after `2>&1 > f` stderr is the default
\* stdout and stdout alone is the file f.
C9_DupBindsCurrentStdout ==
    (rpc # "start" /\ resolved.ok) =>
        /\ resolved.stdout = StdoutAt(redirections, defaults, Len(redirections))
        /\ resolved.stderr = StderrAt(redirections, defaults, Len(redirections))
        /\ redirections = <<ToFile(1, "f"), Dup(2, 1)>> =>
                /\ resolved.stdout = File("f", FALSE)
                /\ resolved.stderr = File("f", FALSE)
        /\ redirections = <<Dup(2, 1), ToFile(1, "f")>> =>
                /\ resolved.stderr = defaults.stdout
                /\ resolved.stdout = File("f", FALSE)

\* C9 witness: `2>&1 > f` resolved on a stage whose default stdout is a
\* pipe: stderr is the pipe, stdout the file
C9_Witness ==
    /\ rpc # "start"
    /\ resolved.ok
    /\ redirections = <<Dup(2, 1), ToFile(1, "f")>>
    /\ defaults.stdout = Pipe
    /\ resolved.stderr = Pipe

\* C10 as stated: resolving the list against its own result gives the
\* result again, for every list and every defaults.
C10_ResolveTwiceSame ==
    rpc = "twice" => resolved_again = resolved

\* a redirection that gives descriptor fd a new handle
Assigns(r, fd) == r.fd = fd /\ ~(r.target = "Fd" /\ r.n = r.fd)

\* no duplication N>&M of the list is followed by a redirection of M
DupStable(L) ==
    \A i, j \in DOMAIN L :
        (i < j /\ L[i].target = "Fd" /\ L[i].n # L[i].fd) => ~Assigns(L[j], L[i].n)

\* C10 amended: resolving the list against its own result gives the result
\* again (the three handles and stdout_redirected) for every list in which
\* no duplication N>&M is followed by a later redirection of descriptor M.
C10_ResolveTwiceSameIfDupStable ==
    (rpc = "twice" /\ DupStable(redirections)) => resolved_again = resolved

\* C10 witness: a list with a file redirection and a duplication behind it
\* has been resolved twice
C10_Witness ==
    /\ rpc = "twice"
    /\ DupStable(redirections)
    /\ \E i, j \in DOMAIN redirections :
        /\ i < j
        /\ redirections[i].target = "File"
        /\ redirections[j].target = "Fd" /\ redirections[j].n # redirections[j].fd
    /\ resolved.stdout # resolved.stderr

(***************************************************************************)
(* SpecPipe: execute_pipeline (and execute, for a pipeline of one stage)   *)
(* with the child processes it spawns.  A stage is a program with its      *)
(* redirections: cat stands for an external program that ends by itself,   *)
(* yes for one that writes to its stdout until the pipe breaks, nosuch for *)
(* one that is not found and noexec for one that cannot be executed.  The  *)
(* pid of a child is the index of its stage.  The children end while the   *)
(* shell thread is blocked in a wait, which is when it can notice.         *)
(***************************************************************************)
StatefulBuiltins == {"cd", "export", "unset", "fg", "bg"}

PipePrograms == StatefulBuiltins \cup {"echo", "exit", "cat", "yes", "nosuch", "noexec"}

\* the redirections of a stage: none, `> f`, `< g` or `0>&1`
StageRedirections == {<<>>, <<ToFile(1, "f")>>, <<FromFile("g")>>, <<Dup(0, 1)>>}

\* PipelineCommand { command, redirections }
PipelineCommands == [program : PipePrograms, redirections : StageRedirections]

\* the pipelines drawn: at most one stage with a redirection, at most one
\* stateful builtin
Pipelines ==
    {p \in UNION {[1..n -> PipelineCommands] : n \in 1..MaxStages} :
        /\ Cardinality({k \in DOMAIN p : p[k].redirections # <<>>}) <= 1
        /\ Cardinality({k \in DOMAIN p : p[k].program \in StatefulBuiltins}) <= 1}

\* Command::spawn succeeded: a new child of the shell
SpawnedChild(p, pid) == MapInsert(p, pid, [st |-> "running", ws |-> NoStatus])

\* Command::spawn: the kind of the io::Error for a program that cannot start
SpawnError(program) ==
    IF program = "nosuch" THEN "NotFound"
    ELSE IF program = "noexec" THEN "PermissionDenied"
    ELSE "none"

\* mutant: the two exit codes are exchanged
CommandError_Swapped(kind) == IF kind = "NotFound" THEN 126 ELSE 127

\* command_error: the exit code for a spawn error
CommandError(kind) == IF kind = "NotFound" THEN 127 ELSE 126

\* command_error: the message written for a spawn error
CommandErrorMessage(kind) == IF kind = "NotFound" THEN "not_found" ELSE "spawn_error"

\* stage k takes the pipe from stage k-1 as its stdin (`< file` replaces it)
ReadsPipe(k) ==
    /\ k > 1
    /\ \A i \in DOMAIN commands[k].redirections :
            commands[k].redirections[i].target # "FileRead"

\* some read end of the pipe behind stage k is open: the shell thread holds
\* it, or the child of stage k+1 holds it as its stdin
ReaderOpen(k) ==
    \/ k \in held
    \/ /\ (k + 1) \in DOMAIN proc
       /\ proc[k + 1].st \in {"running", "stopped"}
       /\ ReadsPipe(k + 1)

\* the child can end now: cat at any time, yes once a write to its pipe
\* fails because no read end is left (it blocks while one is open and
\* nobody reads, and writes for ever to a terminal or a file)
CanEnd(pid) ==
    /\ proc[pid].st = "running"
    /\ \/ commands[pid].program # "yes"
       \/ pid < Len(commands) /\ ~ReaderOpen(pid)

EndStatusesOf(pid) ==
    IF commands[pid].program = "yes" THEN {SignaledStatus(SIGPIPE)} ELSE EndStatuses

\* what a builtin may change of the state of the process: cd the working
\* directory and OLDPWD/PWD, export and unset the environment
Touches(program) ==
    IF program = "cd" THEN {"cwd", "env"}
    ELSE IF program \in {"export", "unset"} THEN {"env"}
    ELSE {}

\* builtins::execute on the thread `by`: the builtin fails or has nothing
\* to change, or it changes what it touches
BuiltinsExecute(program, by) ==
    \E did \in {{}, Touches(program)} :
        mutations' = mutations \cup {[what |-> w, by |-> by] : w \in did}

\* mutant: the line is the one `fg` prints, the command alone
StoppedLine_CommandOnly(id) == JobLine("command", id)

\* the line "[id]  Stopped  command" on stdout
StoppedLine(id) == JobLine("Stopped", id)

PipeInit ==
    /\ ReplIdle /\ LineIdle /\ RedirIdle
    /\ last_exit_code = 0
    /\ background \in BOOLEAN
    /\ commands \in Pipelines
    /\ fs \in {NoFiles, [p \in Paths |-> "data"]}
    /\ fs0 = fs
    /\ stage_idx = 0
    /\ ppc = "start"
    /\ started = <<>>
    /\ last_status = 0
    /\ pipe_out = NoOutcome
    /\ children = <<>>
    /\ held = {}
    /\ remaining = {}
    /\ last_code = NoCode
    /\ threads = <<>>
    /\ mutations = {}
    /\ guards = <<>>
    /\ terminal \in [isatty : BOOLEAN, pgrp : {ShellPgid}]

\* execute_pipeline returns Continue(code)
PipelineReturns(code, why) ==
    /\ pipe_out' = [code |-> code, why |-> why]
    /\ ppc' = "done"

\* an error at some stage: wait_children(&mut children), then
\* return Continue(code)
PipelineFails(code, why) ==
    /\ pipe_out' = [code |-> code, why |-> why]
    /\ ppc' = IF children = <<>> THEN "done" ELSE "wait_children"

\* executor.rs:28-47, 59-68, 616-682, 688-799  a pipeline of one stage goes
\* to execute: run_builtin, or run_external up to the foreground wait
ExecuteSingle ==
    /\ ppc = "start"
    /\ Len(commands) = 1
    /\ LET cmd == commands[1]
           D == [stdin |-> Inherit, stdout |-> Inherit, stderr |-> Inherit]
           r == Resolve(cmd.redirections, D, fs)
           kind == SpawnError(cmd.program)
       IN  /\ fs' = r.fs
           /\ IF ~r.ok
              THEN /\ PipelineReturns(1, "redirection_error")
                   /\ UNCHANGED <<started, last_status, proc, children, job_table, added,
                                  termVars, pgrp, printed, mutations>>
              ELSE IF IsBuiltin(cmd.program)
              THEN /\ started' = Append(started, [stage |-> 1, how |-> "builtin"])
                   /\ \E status \in {0, 1} :
                        /\ cmd.program = "echo" => status = 0
                        /\ last_status' = status
                        /\ PipelineReturns(status,
                                IF cmd.program = "exit" THEN "exit" ELSE "finished")
                   /\ BuiltinsExecute(cmd.program, "shell")
                   /\ UNCHANGED <<proc, children, job_table, added, termVars, pgrp, printed>>
              ELSE IF kind # "none"
              THEN /\ PipelineReturns(CommandError(kind), CommandErrorMessage(kind))
                   /\ UNCHANGED <<started, last_status, proc, children, job_table, added,
                                  termVars, pgrp, printed, mutations>>
              ELSE /\ started' = Append(started, [stage |-> 1, how |-> "child"])
                   /\ proc' = SpawnedChild(proc, 1)
                   /\ pgrp' = MapInsert(pgrp, 1, 1)      \* setpgid(pid, pid)
                   /\ UNCHANGED <<last_status, mutations>>
                   /\ IF background
                      THEN /\ job_table' = AddWithPgid(job_table, 1, 1)
                           /\ added' = Append(added, job_table.next_id)
                           /\ printed' = Append(printed, JobAnnounce(job_table.next_id, 1))
                           /\ PipelineReturns(0, "background")
                           /\ UNCHANGED <<children, termVars>>
                      ELSE /\ children' = <<1>>
                           /\ ForegroundTerminalGuardNew("run_foreground", 1)
                           /\ ppc' = "foreground"
                           /\ UNCHANGED <<pipe_out, job_table, added, printed>>
    /\ UNCHANGED <<commands, stage_idx, held, remaining, last_code, threads>>
    /\ UNCHANGED outsidePipe

\* executor.rs:835-877  run_foreground: wait_for_pid returns when the child
\* has ended or has been stopped, or fails; a stopped child becomes a
\* Stopped job; the guard is dropped on every way out
RunForeground ==
    /\ ppc = "foreground"
    /\ LET pid == children[1]
       IN  \/ /\ proc[pid].st = "zombie"
              /\ proc' = [proc EXCEPT ![pid].st = "reaped"]
              /\ PipelineReturns(ExitCodeFromWaitStatus(proc[pid].ws), "finished")
              /\ UNCHANGED <<job_table, added, printed>>
           \/ /\ proc[pid].st = "running"
              /\ proc' = [proc EXCEPT ![pid].st = "stopped"]
              /\ job_table' = AddStoppedWithPgid(job_table, pid, pgrp[pid])
              /\ added' = Append(added, job_table.next_id)
              /\ printed' = Append(printed, StoppedLine(job_table.next_id))
              /\ PipelineReturns(0, "stopped")
           \/ /\ PipelineReturns(1, "wait_error")      \* waitpid fails
              /\ UNCHANGED <<proc, job_table, added, printed>>
    /\ DropGuard("run_foreground")
    /\ children' = <<>>
    /\ UNCHANGED <<commands, stage_idx, started, last_status, held, remaining, last_code, fs>>
    /\ UNCHANGED <<threadVars, pgrp>>
    /\ UNCHANGED outsidePipe

\* mutant: only the last stage is looked at
ExitInPipeline_LastStageOnly(cmds) == cmds[Len(cmds)].program = "exit"

\* executor.rs:70  commands.iter().any(|cmd| cmd.command.program == "exit")
ExitInPipeline(cmds) == \E k \in DOMAIN cmds : cmds[k].program = "exit"

\* executor.rs:70-95  `exit` anywhere in the pipeline is refused; else the
\* loop over the stages begins
PipelineEnter ==
    /\ ppc = "start"
    /\ Len(commands) > 1
    /\ IF ExitInPipeline(commands)
       THEN /\ PipelineReturns(1, "exit_in_pipeline")
            /\ UNCHANGED stage_idx
       ELSE /\ ppc' = "stages"
            /\ stage_idx' = 1
            /\ UNCHANGED pipe_out
    /\ UNCHANGED <<commands, started, last_status, fs, job_table, added, proc,
                   children, held, remaining, last_code>>
    /\ UNCHANGED <<threadVars, pgrp, printed>>
    /\ UNCHANGED termVars
    /\ UNCHANGED outsidePipe

\* executor.rs:96-319  one turn of the loop over the stages
PipelineStage ==
    /\ ppc = "stages"
    /\ stage_idx <= Len(commands)
    /\ LET segment == commands[stage_idx]
           is_last == stage_idx = Len(commands)
           is_builtin == IsBuiltin(segment.program)
           D == [stdin  |-> IF stage_idx = 1 THEN Inherit ELSE Pipe,
                 stdout |-> IF is_last THEN Inherit ELSE Pipe,
                 stderr |-> Inherit]
           r == Resolve(segment.redirections, D, fs)
           kind == SpawnError(segment.program)
           \* the read end of the pipe from the stage before, while it is
           \* in `stdin` or in the Command that failed to spawn
           reader == IF r.ok /\ r.stdin = Pipe THEN {stage_idx - 1} ELSE {}
           onward == /\ ppc' = IF is_last THEN "wait" ELSE "stages"
                     /\ stage_idx' = stage_idx + 1
                     /\ UNCHANGED <<pipe_out, held>>
           fails(code, why) == /\ PipelineFails(code, why)
                               /\ UNCHANGED <<stage_idx, started, last_status,
                                              proc, children, threadVars, pgrp>>
       IN  \/ /\ ~is_last                   \* pipe() fails
              /\ fails(1, "pipe_error")
              /\ held' = IF stage_idx > 1 THEN {stage_idx - 1} ELSE {}
              /\ UNCHANGED fs
           \/ /\ fs' = r.fs
              /\ IF ~r.ok
                 THEN fails(1, "redirection_error") /\ held' = {}
                 ELSE IF ~is_last /\ r.stdout_redirected
                 THEN fails(1, "stdout_redirect") /\ held' = reader
                 ELSE IF is_builtin /\ is_last
                 THEN /\ started' = Append(started, [stage |-> stage_idx, how |-> "builtin"])
                      /\ \E status \in {0, 1} :
                            /\ segment.program = "echo" => status = 0
                            /\ last_status' = status
                      /\ BuiltinsExecute(segment.program, "shell")
                      /\ UNCHANGED <<proc, children, threads, pgrp>>
                      /\ onward
                 ELSE IF is_builtin
                 THEN /\ started' = Append(started, [stage |-> stage_idx, how |-> "thread"])
                      /\ threads' = MapInsert(threads, stage_idx, "running")
                      /\ UNCHANGED <<last_status, proc, children, mutations, pgrp>>
                      /\ onward
                 ELSE IF kind # "none"
                 THEN /\ fails(CommandError(kind), CommandErrorMessage(kind))
                      /\ held' = reader
                 ELSE /\ started' = Append(started, [stage |-> stage_idx, how |-> "child"])
                      /\ proc' = SpawnedChild(proc, stage_idx)
                      \* setpgid(0, pipeline_pgid): the first child leads the group
                      /\ pgrp' = MapInsert(pgrp, stage_idx,
                                           IF children = <<>> THEN stage_idx ELSE children[1])
                      /\ children' = Append(children, stage_idx)
                      /\ UNCHANGED <<last_status, threadVars>>
                      /\ onward
    /\ UNCHANGED <<commands, job_table, added, remaining, last_code, printed>>
    /\ UNCHANGED termVars
    /\ UNCHANGED outsidePipe

\* executor.rs:607-611  wait_children on an error path: child.wait() on
\* each child in turn, then the function returns and drops its locals
WaitChildren ==
    /\ ppc = "wait_children"
    /\ proc[Head(children)].st = "zombie"
    /\ proc' = [proc EXCEPT ![Head(children)].st = "reaped"]
    /\ children' = Tail(children)
    /\ IF Tail(children) = <<>>
       THEN ppc' = "done" /\ held' = {}
       ELSE UNCHANGED <<ppc, held>>
    /\ UNCHANGED <<commands, stage_idx, started, last_status, pipe_out, remaining,
                   last_code, fs, job_table, added>>
    /\ UNCHANGED <<threadVars, pgrp, printed>>
    /\ UNCHANGED termVars
    /\ UNCHANGED outsidePipe

\* a child ends by itself or by a broken pipe, while the shell waits
ChildEnds ==
    /\ ppc \in {"wait_children", "drain", "foreground", "fg_wait"}
    /\ \E pid \in DOMAIN proc :
        /\ CanEnd(pid)
        /\ \E ws \in EndStatusesOf(pid) :
            proc' = [proc EXCEPT ![pid] = [st |-> "zombie", ws |-> ws]]
    /\ UNCHANGED <<pipeVars, fs, job_table, added, pgrp, printed>>
    /\ UNCHANGED termVars
    /\ UNCHANGED outsidePipe

\* mutant: the job of a background pipeline is given its first child
LastExternal_First(ch) == ch[1]

\* executor.rs:326-330  children.swap_remove(last_external_index)
LastExternal(ch) == ch[Len(ch)]

\* mutant: the shell does not wait for its threads
Joined_NotWaitedFor(th) == TRUE

\* executor.rs:347-349  handle.join() has returned for every thread
Joined(th) == \A k \in DOMAIN th : th[k] = "finished"

\* executor.rs:321-366  the stages are started: a background pipeline hands
\* its last child to the job table and drops the others; a foreground one
\* joins its builtin threads and goes on to wait for its children
PipelineWait ==
    /\ ppc = "wait"
    /\ IF background
       THEN /\ IF children # <<>>
               THEN /\ job_table' = AddWithPgid(job_table, LastExternal(children),
                                                children[1])
                    /\ added' = Append(added, job_table.next_id)
                    /\ printed' = Append(printed, JobAnnounce(job_table.next_id,
                                                              LastExternal(children)))
               ELSE UNCHANGED <<job_table, added, printed>>
            /\ children' = <<>>
            /\ PipelineReturns(0, "background")
            /\ UNCHANGED <<remaining, termVars, threads>>     \* drop(builtin_threads)
       ELSE /\ Joined(threads)
            /\ threads' = [k \in DOMAIN threads |->
                              IF threads[k] = "finished" THEN "joined" ELSE threads[k]]
            /\ UNCHANGED printed
            /\ IF children = <<>>
               THEN /\ PipelineReturns(last_status, "finished")
                    /\ UNCHANGED <<job_table, added, children, remaining, termVars>>
               ELSE /\ ForegroundTerminalGuardNew("execute_pipeline", children[1])
                    /\ ppc' = "drain"
                    /\ remaining' = Range(children)
                    /\ UNCHANGED <<job_table, added, children, pipe_out>>
    /\ UNCHANGED <<commands, stage_idx, started, last_status, held, last_code, fs, proc>>
    /\ UNCHANGED <<mutations, pgrp>>
    /\ UNCHANGED outsidePipe

\* executor.rs:192-213  the closure of a worker thread: builtins::execute
\* with a JobTable of its own, then its writers are flushed and dropped
WorkerRuns ==
    /\ \E k \in DOMAIN threads :
        /\ threads[k] = "running"
        /\ threads' = [threads EXCEPT ![k] = "finished"]
        /\ BuiltinsExecute(commands[k].program, "worker")
    /\ UNCHANGED <<commands, stage_idx, ppc, started, last_status, pipe_out,
                   children, held, remaining, last_code>>
    /\ UNCHANGED <<fs, job_table, added, proc, pgrp, printed>>
    /\ UNCHANGED termVars
    /\ UNCHANGED outsidePipe

\* mutant: the code of whichever child was waited is kept
DrainCode_AnyChild(code, pid, last_external_pid, before) == code

\* executor.rs:952-954  only the status of the last external child is kept
DrainCode(code, pid, last_external_pid, before) ==
    IF pid = last_external_pid THEN code ELSE before

\* executor.rs:367-397, 909-958  wait_for_pipeline_process_group: one
\* waitpid(-pgid, WUNTRACED) and what follows when it ends the loop
PipelineDrain ==
    /\ ppc = "drain"
    /\ LET last_is_external == ~IsBuiltin(commands[Len(commands)].program)
           last_external_pid == children[Len(children)]
           fg_pgid == children[1]
       IN  \/ \E pid \in remaining :         \* a child of the group has ended
                LET code == DrainCode(PipelineWaitCode(proc[pid].ws), pid,
                                      last_external_pid, last_code)
                IN  /\ proc[pid].st = "zombie"
                    /\ proc' = [proc EXCEPT ![pid].st = "reaped"]
                    /\ remaining' = remaining \ {pid}
                    /\ last_code' = code
                    /\ IF remaining = {pid}
                       THEN /\ PipelineReturns(
                                    IF last_is_external
                                    THEN (IF code = NoCode THEN 0 ELSE code)
                                    ELSE last_status, "finished")
                            /\ DropGuard("execute_pipeline")
                            /\ children' = <<>>
                       ELSE UNCHANGED <<ppc, pipe_out, children, termVars>>
                    /\ UNCHANGED <<job_table, added, printed>>
           \/ /\ \E pid \in DOMAIN proc : proc[pid].st = "running"
              /\ proc' = [pid \in DOMAIN proc |->       \* the group is stopped
                            IF proc[pid].st = "running"
                            THEN [proc[pid] EXCEPT !.st = "stopped"]
                            ELSE proc[pid]]
              /\ job_table' = AddStoppedWithPgid(job_table, last_external_pid, fg_pgid)
              /\ added' = Append(added, job_table.next_id)
              /\ printed' = Append(printed, StoppedLine(job_table.next_id))
              /\ PipelineReturns(0, "stopped")
              /\ DropGuard("execute_pipeline")
              /\ children' = <<>>
              /\ UNCHANGED <<remaining, last_code>>
           \/ /\ PipelineReturns(1, "wait_error")      \* waitpid fails
              /\ DropGuard("execute_pipeline")
              /\ children' = <<>>
              /\ UNCHANGED <<proc, job_table, added, remaining, last_code, printed>>
    /\ UNCHANGED <<commands, stage_idx, started, last_status, held, fs>>
    /\ UNCHANGED <<threadVars, pgrp>>
    /\ UNCHANGED outsidePipe

PipeNext ==
    \/ ExecuteSingle \/ RunForeground
    \/ PipelineEnter \/ PipelineStage \/ WaitChildren
    \/ PipelineWait \/ PipelineDrain
    \/ ChildEnds \/ WorkerRuns

SpecPipe == PipeInit /\ [][PipeNext]_vars

\* C7: a pipeline with cd, export, unset, fg or bg before its last stage
\* ends rejected: exit code 1, the error that names the builtin as not
\* supported there, and no stage started.  (Pipelines the executor refuses
\* for another reason, an `exit`, a stdout redirection before the last
\* stage or a program that is not found, are left aside.)
C7_StatefulBuiltinRejected ==
    (/\ ppc = "done"
     /\ \A k \in DOMAIN commands : commands[k].program \notin {"exit", "nosuch"}
     /\ \A k \in 1..(Len(commands) - 1) : commands[k].redirections = <<>>
     /\ \E k \in 1..(Len(commands) - 1) : commands[k].program \in StatefulBuiltins)
        => /\ pipe_out = [code |-> 1, why |-> "stateful_builtin"]
           /\ started = <<>>

\* C8: a pipeline (with no `exit` in it) whose first stage redirects its
\* stdout to a file ends rejected with exit code 1 for that reason, and the
\* files are what they were before: the target is neither created nor
\* truncated.
C8_RejectedStdoutRedirectTouchesNoFile ==
    /\ pipe_out.why = "stdout_redirect" => pipe_out.code = 1 /\ fs = fs0
    /\ (/\ ppc = "done"
        /\ \A k \in DOMAIN commands : commands[k].program # "exit"
        /\ commands[1].redirections # <<>>)
            => /\ pipe_out = [code |-> 1, why |-> "stdout_redirect"]
               /\ started = <<>>
               /\ fs = fs0

(***************************************************************************)
(* Claims about the children of a pipeline, checked under SpecPipe.        *)
(***************************************************************************)
\* the child is the Child of some job of the table
OwnedByJob(pid) == \E id \in DOMAIN job_table.jobs : job_table.jobs[id].pid = pid

\* C11: when execute_pipeline has returned from a pipeline of several
\* stages, on whatever path, every child process it spawned has been waited
\* for or is the child held by a job of the job table.
C11_EveryChildWaitedOrOwned ==
    (ppc = "done" /\ Len(commands) > 1)
        => \A pid \in DOMAIN proc : proc[pid].st = "reaped" \/ OwnedByJob(pid)

\* SpecPipe with the scheduling the shell relies on: the shell thread takes
\* its next step when it can, and a child that can end does end.  A stop is
\* the user's doing and is not assumed to happen.
SpecPipeLive ==
    /\ SpecPipe
    /\ WF_vars(ExecuteSingle) /\ WF_vars(PipelineEnter) /\ WF_vars(PipelineStage)
    /\ WF_vars(PipelineWait) /\ WF_vars(WaitChildren) /\ WF_vars(ChildEnds)
    /\ WF_vars(WorkerRuns)

\* C12: when a stage cannot be started, because its program fails to spawn
\* or its stdout redirection is rejected, while the external stage before
\* it is still running and writing into the pipe between them, then
\* execute_pipeline does return: it waits the earlier stages out and hands
\* back the error code.
C12_FailedStageReturns ==
    (/\ ppc = "wait_children"
     /\ pipe_out.why \in {"not_found", "spawn_error", "stdout_redirect"}
     /\ (stage_idx - 1) \in DOMAIN proc
     /\ proc[stage_idx - 1].st = "running")
        ~> (ppc = "done")

\* the redirections of stage k cannot be resolved: `0>&1` is an unsupported
\* (target, fd) combination, `< g` cannot be opened when g does not exist
FailsToResolve(k) ==
    \/ commands[k].redirections = <<Dup(0, 1)>>
    \/ commands[k].redirections = <<FromFile("g")>> /\ fs0["g"] = "absent"

\* C13: a command or pipeline stage whose redirections fail to resolve is
\* not started, neither as a child process nor as a builtin run; the
\* command ends with the redirection message and exit code 1.
C13_FailedRedirectionStartsNothing ==
    /\ \A i \in DOMAIN started : ~FailsToResolve(started[i].stage)
    /\ \A pid \in DOMAIN proc : ~FailsToResolve(pid)
    /\ pipe_out.why = "redirection_error"
        => /\ pipe_out.code = 1
           /\ FailsToResolve(IF Len(commands) = 1 THEN 1 ELSE stage_idx)
    /\ (ppc = "done" /\ Len(commands) = 1 /\ FailsToResolve(1))
        => pipe_out = [code |-> 1, why |-> "redirection_error"]
    /\ (/\ ppc = "done" /\ Len(commands) > 1
        /\ stage_idx \in DOMAIN commands
        /\ FailsToResolve(stage_idx)
        /\ pipe_out.why # "pipe_error")
            => pipe_out = [code |-> 1, why |-> "redirection_error"]

\* a pipeline whose second stage fails to resolve after the first was
\* spawned, and has returned
C13_Witness ==
    /\ ppc = "done"
    /\ pipe_out = [code |-> 1, why |-> "redirection_error"]
    /\ stage_idx = 2
    /\ 1 \in DOMAIN proc
    /\ 2 \notin DOMAIN proc

\* C14: a program that fails to spawn gives exit code 127 and the "command
\* not found" message when the error is not-found, and 126 for any other
\* spawn error, as a single command and as any stage of a pipeline, in the
\* foreground and with `&`; no child exists for it and no job is added.
C14_SpawnErrorCodes ==
    LET \* stage k, reached with its redirections resolved, was not spawned
        StoppedAtSpawnOf(k, program) ==
            /\ ppc = "done"
            /\ k \in DOMAIN commands
            /\ commands[k].program = program
            /\ pipe_out.why \notin {"none", "pipe_error", "redirection_error",
                                    "stdout_redirect"}
    IN
    /\ \A pid \in DOMAIN proc : SpawnError(commands[pid].program) = "none"
    /\ pipe_out.why \in {"not_found", "spawn_error"}
        => /\ pipe_out.code = IF pipe_out.why = "not_found" THEN 127 ELSE 126
           /\ job_table = NewJobTable
           /\ added = <<>>
    /\ \A k \in {IF Len(commands) = 1 THEN 1 ELSE stage_idx} :
        /\ StoppedAtSpawnOf(k, "nosuch") => pipe_out = [code |-> 127, why |-> "not_found"]
        /\ StoppedAtSpawnOf(k, "noexec") => pipe_out = [code |-> 126, why |-> "spawn_error"]

\* a background pipeline whose second stage cannot be executed, after the
\* first was spawned and waited for
C14_Witness ==
    /\ ppc = "done"
    /\ background
    /\ pipe_out = [code |-> 126, why |-> "spawn_error"]
    /\ stage_idx = 2
    /\ 1 \in DOMAIN proc
    /\ proc[1].st = "reaped"

\* C15: a foreground pipeline of two or more stages that runs to completion
\* returns the exit code of its last stage, whatever the other stages ended
\* with and in whatever order the children were waited: the wait status of
\* the last child, classified (its exit code, or 128 + the signal), when
\* the last stage is external, and the code the builtin returned when the
\* last stage is a builtin.
C15_PipelineCodeIsLastStage ==
    (/\ ppc = "done"
     /\ Len(commands) > 1
     /\ pipe_out.why = "finished")
        => LET last == Len(commands)
           IN  IF IsBuiltin(commands[last].program)
               THEN pipe_out.code = last_status
               ELSE /\ last \in DOMAIN proc
                    /\ proc[last].st = "reaped"
                    /\ pipe_out.code =
                          IF proc[last].ws.k = "exited"
                          THEN proc[last].ws.n
                          ELSE 128 + proc[last].ws.n

\* the last stage exited with 7 and an earlier one was killed by a signal
C15_Witness ==
    /\ ppc = "done"
    /\ Len(commands) > 1
    /\ pipe_out = [code |-> 7, why |-> "finished"]
    /\ ~background
    /\ 1 \in DOMAIN proc
    /\ proc[1].st = "reaped"
    /\ proc[1].ws = SignaledStatus(SIGTERM)
    /\ proc[Len(commands)].ws = ExitedStatus(7)

(***************************************************************************)
(* The job-control builtins, step by step (Spec).                          *)
(***************************************************************************)
\* C16: fg on the job J it is given, or on the job with the greatest id
\* when it has no argument, resumes and waits for J's process: when the
\* process exits, J leaves the table and fg returns its exit code, 128 +
\* the signal if a signal killed it; when the process stops, J stays in the
\* table as Stopped and fg returns 0.  One of the two happens, every other
\* job is left as it was, and a stopped process that exits was continued.
C16_FgWaitsForJob ==
    [][(Executing /\ last_cmd' = "fg" /\ entries_left' # entries_left)
        => LET ids == DOMAIN job_table.jobs
               J == IF last_args' = <<>>
                    THEN (IF ids = {} THEN 0
                          ELSE CHOOSE x \in ids : \A y \in ids : y <= x)
                    ELSE IF last_args'[1].k = "id" THEN last_args'[1].n ELSE 0
           IN  (J \in ids /\ proc[job_table.jobs[J].pid].st # "reaped")
                => LET pid == job_table.jobs[J].pid
                       ws == proc'[pid].ws
                   IN  /\ \A id \in ids \ {J} :
                            /\ id \in DOMAIN job_table'.jobs
                            /\ job_table'.jobs[id] = job_table.jobs[id]
                       /\ DOMAIN job_table'.jobs \subseteq ids
                       /\ \/ /\ proc'[pid].st = "reaped"
                             /\ ws.k \in {"exited", "signaled"}
                             /\ proc[pid].st = "zombie" => ws = proc[pid].ws
                             /\ J \notin DOMAIN job_table'.jobs
                             /\ last_exit_code' = IF ws.k = "signaled" THEN 128 + ws.n
                                                  ELSE ws.n
                          \/ /\ proc'[pid].st = "stopped"
                             /\ proc[pid].st # "zombie"
                             /\ J \in DOMAIN job_table'.jobs
                             /\ job_table'.jobs[J] =
                                    [job_table.jobs[J] EXCEPT !.status = Stopped]
                             /\ last_exit_code' = 0
                             /\ printed'[Len(printed')] = JobLine("Stopped", J)]_vars

\* fg without an argument, with jobs 1 and 2 in the table, has waited for
\* job 2, whose process a signal killed: 143 is returned and job 1 stays
C16_Witness ==
    /\ last_cmd = "fg"
    /\ last_args = <<>>
    /\ last_exit_code = 128 + SIGTERM
    /\ added = <<1, 2>>
    /\ DOMAIN job_table.jobs = {1}
    /\ \E pid \in DOMAIN proc :
        proc[pid] = [st |-> "reaped", ws |-> SignaledStatus(SIGTERM)]

BuiltinFg ==
    /\ ppc = "done"
    /\ \E arg \in JobArgs :
        LET job_id == ResolveJobId(arg, MostRecentId(job_table)) IN
        /\ last_args' = ArgList(arg)
        /\ IF job_id \notin DOMAIN job_table.jobs
           THEN /\ last_exit_code' = 1
                /\ printed' = <<>>
                /\ UNCHANGED <<ppc, job_table, proc, termVars>>
           ELSE /\ job_table' = [job_table EXCEPT !.jobs[job_id].status = Running]
                /\ printed' = <<JobLine("command", job_id)>>
                /\ ForegroundTerminalGuardNew("builtin_fg", job_table.jobs[job_id].pgid)
                /\ proc' = [pid \in DOMAIN proc |->
                                IF proc[pid].st = "stopped"
                                THEN [proc[pid] EXCEPT !.st = "running"]
                                ELSE proc[pid]]
                /\ ppc' = "fg_wait"
                /\ UNCHANGED last_exit_code
    /\ last_cmd' = "fg"
    /\ UNCHANGED <<pc, entries_left, background, added, obs, pgrp, shutdown>>
    /\ UNCHANGED <<commands, stage_idx, started, last_status, pipe_out, children, held,
                   remaining, last_code, threadVars>>
    /\ UNCHANGED <<lineVars, redirVars, fs, fs0, cd_env, codec, edVars>>

\* builtins.rs:405-428  builtin_fg from wait_for_pid on: the wait fails
\* (nobody is left to wait for), or the process has exited, or the group
\* is stopped; the guard is dropped on every way out
FgWaitReturns ==
    /\ ppc = "fg_wait"
    /\ LET job_id == ResolveJobId(IF last_args = <<>> THEN NoArg ELSE last_args[1],
                                  MostRecentId(job_table))
           pid == job_table.jobs[job_id].pid
       IN  \/ /\ proc[pid].st = "reaped"
              /\ last_exit_code' = 1
              /\ UNCHANGED <<job_table, proc, printed>>
           \/ /\ proc[pid].st = "zombie"
              /\ proc' = [proc EXCEPT ![pid].st = "reaped"]
              /\ job_table' = Remove(job_table, job_id)
              /\ last_exit_code' = ExitCodeFromWaitStatus(proc[pid].ws)
              /\ UNCHANGED printed
           \/ /\ proc[pid].st = "running"
              /\ proc' = [p \in DOMAIN proc |->
                            IF proc[p].st = "running"
                            THEN [proc[p] EXCEPT !.st = "stopped"]
                            ELSE proc[p]]
              /\ job_table' = [job_table EXCEPT !.jobs[job_id].status = Stopped]
              /\ printed' = Append(printed, JobLine("Stopped", job_id))
              /\ last_exit_code' = 0
    /\ DropGuard("builtin_fg")
    /\ ppc' = "done"
    /\ UNCHANGED <<pc, entries_left, background, last_cmd, last_args, added, obs,
                   pgrp, shutdown>>
    /\ UNCHANGED <<commands, stage_idx, started, last_status, pipe_out, children, held,
                   remaining, last_code, threadVars>>
    /\ UNCHANGED <<lineVars, redirVars, fs, fs0, cd_env, codec, edVars>>

TermNext ==
    \/ ExecuteSingle \/ RunForeground
    \/ PipelineEnter \/ PipelineStage \/ WaitChildren
    \/ PipelineWait \/ PipelineDrain
    \/ ChildEnds \/ WorkerRuns
    \/ BuiltinFg \/ FgWaitReturns

SpecTerm == PipeInit /\ [][TermNext]_vars

\* C20: at most one ForegroundTerminalGuard is alive at any time, held by
\* the function that is in its foreground wait, and the terminal then
\* belongs to the group waited for or to the shell; whenever no foreground
\* wait is going on (the wait has ended by exit, by stop or by an error of
\* the wait, for a single command, a pipeline or fg) no guard is alive and
\* the foreground process group of the terminal is the shell's own.
C20_TerminalOwnershipScoped ==
    /\ Cardinality(DOMAIN guards) <= 1
    /\ ppc = "foreground" => DOMAIN guards \subseteq {"run_foreground"}
    /\ ppc = "drain" => DOMAIN guards \subseteq {"execute_pipeline"}
    /\ ppc = "fg_wait" => DOMAIN guards \subseteq {"builtin_fg"}
    /\ ppc \notin {"foreground", "drain", "fg_wait"}
        => guards = <<>> /\ terminal.pgrp = ShellPgid
    /\ terminal.pgrp # ShellPgid
        => \E h \in DOMAIN guards : guards[h].tty_fd = "Some"

\* the shell is back at its prompt after an fg whose wait failed, the
\* terminal having been handed to the job's group in between
C20_Witness ==
    /\ ppc = "done"
    /\ last_cmd = "fg"
    /\ last_exit_code = 1
    /\ terminal = [isatty |-> TRUE, pgrp |-> ShellPgid]
    /\ guards = <<>>
    /\ \E id \in DOMAIN job_table.jobs :
        /\ job_table.jobs[id].status = Running
        /\ proc[job_table.jobs[id].pid].st = "reaped"

(***************************************************************************)
(* Claims about the end of the shell, checked under Spec.                  *)
(***************************************************************************)
\* the decimal numeral of a number, as a user types it
RECURSIVE DecimalDigits(_)
DecimalDigits(n) ==
    IF n < 10 THEN <<Digits[n + 1]>>
    ELSE DecimalDigits(n \div 10) \o <<Digits[(n % 10) + 1]>>

ToDecimal(n) == IF n < 0 THEN <<"-">> \o DecimalDigits(-n) ELSE DecimalDigits(n)

\* an optional sign followed by digits only
IsNumeral(chars) ==
    LET digits == IF chars # <<>> /\ Head(chars) \in {"+", "-"} THEN Tail(chars) ELSE chars
    IN  digits # <<>> /\ \A i \in DOMAIN digits : IsDigit(digits[i])

ExitProbes == {0, 7, 42, 300, -1, I32Max}

\* C21: an exit step ends the loop with the entries after it not considered,
\* and the process exits with the code of Exit: 0 without an argument, n for
\* the numeral of n, 2 and the message for an argument that is no numeral;
\* no step follows the end of the shell; every other step of an entry sets
\* $? and stays in the loop.
C21_ExitEndsShell ==
    [][/\ pc # "exited"
       /\ pc' = "exited" => last_cmd' \in {"exit", "eof"}
       /\ (Executing /\ last_cmd' # "exit") =>
            /\ pc' \in {"top", "exec"}
            /\ shutdown' = shutdown
       /\ (Executing /\ last_cmd' = "exit") =>
            /\ pc' = "exited"
            /\ entries_left' = entries_left
            /\ shutdown'.done
            /\ shutdown'.status = last_exit_code'
            /\ last_args' = <<>> => (last_exit_code' = 0 /\ printed' = <<>>)
            /\ \A n \in ExitProbes :
                (last_args' # <<>> /\ last_args'[1] = ToDecimal(n)) =>
                    (last_exit_code' = n /\ printed' = <<>>)
            /\ (last_args' # <<>> /\ ~IsNumeral(last_args'[1])) =>
                    (last_exit_code' = 2 /\ printed' = <<ExitMessage(last_args'[1])>>)
      ]_vars

\* C21 witness: `exit 42` as the first of two entries ended the shell with
\* status 42 and the second entry never ran
C21_Witness ==
    /\ pc = "exited"
    /\ last_cmd = "exit"
    /\ entries_left = 2
    /\ last_args = <<ToDecimal(42)>>
    /\ shutdown.done
    /\ shutdown.status = 42

\* C22: once the loop has ended, by exit or by the end of input, every
\* child of a job still in the table that is alive, running or stopped, has
\* received the hangup.
C22_EveryJobReceivesHangup ==
    shutdown.done =>
        \A id \in DOMAIN job_table.jobs :
            (/\ job_table.jobs[id].status.tag # "Done"
             /\ proc[job_table.jobs[id].pid].st \in {"running", "stopped"})
                => job_table.jobs[id].pid \in shutdown.received

(***************************************************************************)
(* Claims about whole lines, checked under SpecLine.                       *)
(***************************************************************************)
\* C23: a line that ends with `&` and holds more than one chain entry is
\* not executed by the shell itself: no entry is ever considered, and either
\* one child shell is spawned and given the text of the chain, exactly one
\* Running job is added for it, "[id] pid" is printed and $? is 0, or the
\* spawn fails, $? is 1 and no job is added.  A line of one entry with `&`
\* goes to the entry loop, which hands the `&` to the command.
C23_ChainInBackground ==
    [][(lpc = "read" /\ lpc' # "read" /\ background' /\ chain' # <<>>) =>
          IF Len(chain') > 1
          THEN /\ lpc' = "backgrounded"
               /\ ran' = <<>>
               /\ \/ /\ last_exit_code' = 0
                     /\ \E pid \in DOMAIN proc' \ DOMAIN proc :
                          /\ DOMAIN proc' = DOMAIN proc \cup {pid}
                          /\ proc'[pid].st = "running"
                          /\ job_table'.jobs =
                                MapInsert(job_table.jobs, job_table.next_id,
                                          [id |-> job_table.next_id, pid |-> pid,
                                           pgid |-> pid, status |-> Running])
                          /\ job_table.next_id \notin DOMAIN job_table.jobs
                          /\ printed' = <<JobAnnounce(job_table.next_id, pid)>>
                     /\ last_args' = <<SubSeq(line, 1, Len(line) - 2)>>
                  \/ /\ last_exit_code' = 1
                     /\ job_table' = job_table
                     /\ proc' = proc
                     /\ printed' = <<>>
          ELSE /\ lpc' = "loop"
               /\ entry_i' = 1
               /\ job_table' = job_table
               /\ proc' = proc
       /\ lpc # "backgrounded"
      ]_vars

\* C23 witness: a chain of three entries went to a child shell as job 1
C23_Witness ==
    /\ lpc = "backgrounded"
    /\ Len(chain) = 3
    /\ ran = <<>>
    /\ last_exit_code = 0
    /\ start_code = 1
    /\ DOMAIN job_table.jobs = {1}
    /\ job_table.jobs[1].status = Running
    /\ printed = <<JobAnnounce(1, 1)>>

(***************************************************************************)
(* SpecCd: any sequence of cd calls, while other processes may remove      *)
(* directories, the working directory of the shell included.               *)
(***************************************************************************)
CdArgLists == {<<>>, <<"-">>} \cup {<<d>> : d \in CdTargets}

CdInit ==
    /\ LineIdle /\ RedirIdle /\ PipeIdle /\ FilesIdle
    /\ pc = "idle"
    /\ job_table = NewJobTable
    /\ proc = <<>>
    /\ pgrp = <<>>
    /\ shutdown = NoShutdown
    /\ entries_left = 0
    /\ background = FALSE
    /\ last_exit_code = 0
    /\ last_cmd = "start"
    /\ last_args = <<>>
    /\ printed = <<>>
    /\ added = <<>>
    /\ obs = NoObs
    /\ CodecIdle
    /\ EditorIdle
    /\ cd_env \in [cwd : Directories,
                   OLDPWD : {Unset} \cup {Var(d) : d \in Directories \cup {"/gone"}},
                   HOME : {Unset, Var("/b"), Var("/gone")},
                   USERPROFILE : {Unset, Var("/a")},
                   dirs : SUBSET Directories]

\* builtins.rs:55-93  builtin_cd
BuiltinCd ==
    /\ \E args \in CdArgLists :
        LET target == CdTarget(cd_env, args)
            old_dir == CurrentDir(cd_env)
        IN  /\ last_args' = args
            /\ IF ~target.set
               THEN /\ printed' = <<CdMessage("cd: OLDPWD not set")>>
                    /\ last_exit_code' = 1
                    /\ UNCHANGED cd_env
               ELSE \/ /\ SetCurrentDirMayFail(cd_env, target.val)
                       /\ printed' = <<CdMessage("cd: target: error")>>
                       /\ last_exit_code' = 1
                       /\ UNCHANGED cd_env
                    \/ \E dir \in SetCurrentDir(cd_env, target.val) :
                       /\ cd_env' = [cd_env EXCEPT !.cwd = dir,
                                                   !.OLDPWD = IF old_dir.set THEN old_dir ELSE @]
                       /\ printed' = <<>>
                       /\ last_exit_code' = 0
    /\ last_cmd' = "cd"
    /\ UNCHANGED <<pc, job_table, proc, pgrp, shutdown, entries_left, background, added, obs>>
    /\ UNCHANGED <<lineVars, redirVars, pipeVars, termVars, fs, fs0, codec, edVars>>

\* another process removes a directory
RemoveDir ==
    /\ \E d \in cd_env.dirs : cd_env' = [cd_env EXCEPT !.dirs = @ \ {d}]
    /\ UNCHANGED <<replVars, lineVars, redirVars, pipeVars, termVars, fs, fs0, codec, edVars>>

CdNext == BuiltinCd \/ RemoveDir

SpecCd == CdInit /\ [][CdNext]_vars

\* C24: after a cd that returns 0, $OLDPWD is the directory the shell was in
\* before the call, and `cd -` has gone to the former $OLDPWD; after a cd
\* that returns 1 the directory and $OLDPWD are the ones before; `cd -`
\* with OLDPWD unset returns 1.
C24_OldpwdIsPreviousDirectory ==
    [][(last_cmd' = "cd" /\ cd_env'.dirs = cd_env.dirs) =>
          /\ last_exit_code' \in {0, 1}
          /\ last_exit_code' = 0 =>
                /\ cd_env'.OLDPWD = Var(cd_env.cwd)
                /\ last_args' = <<"-">> => cd_env'.cwd = cd_env.OLDPWD.val
          /\ last_exit_code' = 1 =>
                /\ cd_env'.cwd = cd_env.cwd
                /\ cd_env'.OLDPWD = cd_env.OLDPWD
          /\ (last_args' = <<"-">> /\ ~cd_env.OLDPWD.set) => last_exit_code' = 1
      ]_vars

(***************************************************************************)
(* SpecStatus: a raw wait status goes through the three classifications.   *)
(***************************************************************************)
\* raw statuses: the low byte takes every value, the high byte a few
StatusHighBytes == {0, 1, 7, 19, 255}
RawStatuses == {hi * 256 + lo : hi \in StatusHighBytes, lo \in 0..255}

StatusInit ==
    /\ LineIdle /\ RedirIdle /\ PipeIdle /\ FilesIdle /\ CdIdle
    /\ pc = "idle"
    /\ job_table = NewJobTable
    /\ proc = <<>>
    /\ pgrp = <<>>
    /\ shutdown = NoShutdown
    /\ entries_left = 0
    /\ background = FALSE
    /\ last_exit_code = 0
    /\ last_cmd = "start"
    /\ last_args = <<>>
    /\ printed = <<>>
    /\ added = <<>>
    /\ obs = NoObs
    /\ codec \in [raw : RawStatuses, classified : {FALSE}, exit_code : {0},
                  from_wait_status : {0}, pipeline : {0}]
    /\ EditorIdle

\* status.rs:4-32, executor.rs:944-950  the status is classified
Classify ==
    /\ ~codec.classified
    /\ LET ws == WaitStatusOf(codec.raw)
       IN  codec' = [raw |-> codec.raw, classified |-> TRUE,
                     exit_code |-> ExitCode(ws),
                     from_wait_status |-> ExitCodeFromWaitStatus(ws),
                     pipeline |-> PipelineWaitCode(ws)]
    /\ UNCHANGED <<replVars, lineVars, redirVars, pipeVars, termVars, fs, fs0, cd_env,
                   edVars>>

StatusNext == Classify

SpecStatus == StatusInit /\ [][StatusNext]_vars

\* what the statement gives for a raw status: the exit code of a normal
\* exit, 128 + s for a death by signal s, and 1 for any other
CodecValue(raw) ==
    IF raw % 128 = 0 THEN (raw \div 256) % 256
    ELSE IF (raw % 128) \in 1..126 THEN 128 + (raw % 128)
    ELSE 1

MalformedPipeline(words) ==
    \/ words = <<>>
    \/ IsPipeWord(words[1])
    \/ IsPipeWord(words[Len(words)])
    \/ \E i \in 1..(Len(words) - 1) : IsPipeWord(words[i]) /\ IsPipeWord(words[i + 1])

\* the chain entries of a line that tokenizes, without its trailing `&`
EntriesOf(l) ==
    LET all == Tokenize(l)
    IN  ParseChain(IF all # <<>> /\ IsBackgroundWord(all[Len(all)])
                   THEN SubSeq(all, 1, Len(all) - 1) ELSE all)

\* C26: when the line splits into chain entries and the pipeline of any
\* of them lacks a command before or after a `|`, processing the line
\* reports one error, sets $? to 2 and ends the line: no entry is
\* considered, no process is spawned, no job is added and no file is opened.
C26_MalformedPipelineDiscardsLine ==
    [][/\ (/\ lpc = "read"
           /\ TokenizeOk(line)
           /\ EntriesOf(line).ok
           /\ \E k \in DOMAIN EntriesOf(line).entries :
                  MalformedPipeline(EntriesOf(line).entries[k].words))
          => /\ lpc' = "syntax"
             /\ last_exit_code' = 2
             /\ printed' = <<Diagnostic("pipeline")>>
             /\ ran' = <<>>
             /\ proc' = proc
             /\ job_table' = job_table
             /\ fs' = fs
       /\ lpc # "syntax"
      ]_vars

\* C26 witness: `true > f ; | true` was discarded: true did not run and f
\* was not created
C26_Witness ==
    /\ line = <<"true", " ", ">", " ", "f", " ", ";", " ", "|", " ", "true">>
    /\ lpc = "syntax"
    /\ last_exit_code = 2
    /\ start_code = 0
    /\ ran = <<>>
    /\ fs = NoFiles
    /\ Len(printed) = 1

\* C27: when a syntax error has been reported, be it an unterminated
\* quote, a misplaced chain operator, a malformed pipeline or a redirection
\* operator without a file name, $? is 2, no command of the line has been
\* executed and no file has been opened.
C27_SyntaxErrorBeforeAnySideEffect ==
    (\/ lpc = "syntax"
     \/ lpc = "broke" /\ printed = <<Diagnostic("expected filename")>>)
        => /\ last_exit_code = 2
           /\ \A k \in DOMAIN ran : ran[k].outcome \in {"skipped", "syntax"}
           /\ fs = NoFiles
           /\ proc = <<>>

\* the redirections of an entry cannot be set up: a target of several
\* fields, or a file that cannot be opened
SetupFailure(pipeline_words) ==
    \/ EntryError(pipeline_words) = "ambiguous redirect target"
    \/ EntryError(pipeline_words) = "none" /\ SetupFails(pipeline_words)

\* C28: an entry that ran and whose redirections could not be set up left
\* $? = 1, the driver went on to the entries behind it, and the next entry
\* ran iff it is joined by Or or by Sequence.
C28_SetupFailureLetsChainContinue ==
    \A k \in DOMAIN ran :
        (ran[k].run /\ SetupFailure(chain[k].pipeline_words)) =>
            /\ ran[k].after = 1
            /\ ~(lpc = "broke" /\ k = Len(ran))
            /\ (k + 1) \in DOMAIN ran =>
                  (ran[k + 1].run <=> ran[k + 1].connector \in {"Sequence", "Or"})

(***************************************************************************)
(* Claims about `exit` and about builtins with `&`.                        *)
(***************************************************************************)
\* C29: a pipeline of several stages one of which is `exit` never reaches
\* the loop over its stages: nothing is started, no child exists, no end of
\* a pipe is held, no file is touched, no job is added, and it returns
\* Continue(1) for that reason.  Exit is returned only for a single `exit`.
C29_ExitRefusedInPipeline ==
    /\ (Len(commands) > 1 /\ \E k \in DOMAIN commands : commands[k].program = "exit") =>
          /\ ppc \in {"start", "done"}
          /\ stage_idx = 0
          /\ started = <<>>
          /\ proc = <<>>
          /\ children = <<>>
          /\ held = {}
          /\ fs = fs0
          /\ job_table = NewJobTable
          /\ ppc = "done" => pipe_out = [code |-> 1, why |-> "exit_in_pipeline"]
    /\ pipe_out.why = "exit" => Len(commands) = 1 /\ commands[1].program = "exit"

\* C29 witness: `exit | cat > f | cat` was refused
C29_Witness ==
    /\ ppc = "done"
    /\ Len(commands) = 3
    /\ commands[1].program = "exit"
    /\ commands[2] = [program |-> "cat", redirections |-> <<ToFile(1, "f")>>]
    /\ commands[3].program = "cat"
    /\ pipe_out = [code |-> 1, why |-> "exit_in_pipeline"]
    /\ fs = fs0

\* the entry of a line of one entry is made of builtins only
BuiltinsOnly(pipeline_words) ==
    \A k \in DOMAIN Programs(pipeline_words) : IsBuiltin(Programs(pipeline_words)[k])

\* C30: once a line of one entry that ends with `&` and is made of
\* builtins only has run, alone or as a pipeline, no job has been added,
\* stderr holds exactly one warning that the builtin does not support
\* background execution, and $? is 0.
C30_BackgroundBuiltinWarnsOnce ==
    (/\ lpc = "done"
     /\ background
     /\ Len(chain) = 1
     /\ Len(ran) = 1
     /\ ran[1].outcome = "Continue"
     /\ EntryError(chain[1].pipeline_words) = "none"
     /\ ~SetupFails(chain[1].pipeline_words)
     /\ BuiltinsOnly(chain[1].pipeline_words))
        => /\ job_table = NewJobTable
           /\ proc = <<>>
           /\ last_exit_code = 0
           /\ printed = <<Diagnostic("does not support background execution")>>

(***************************************************************************)
(* Claims about the threads and the children of a pipeline.                *)
(***************************************************************************)
\* C31: whatever the interleaving of the shell thread with the worker
\* threads, every change of the environment and of the working directory
\* was made on the shell thread.
C31_SharedStateOnShellThreadOnly ==
    \A m \in mutations : m.by = "shell"

(***************************************************************************)
(* Claims about `wait` without arguments.                                  *)
(***************************************************************************)
\* the code `wait` returns when it takes the Running jobs of the table in
\* the order `order` and the children end with the statuses they have in p1
WaitCodeInOrder(order, p1) ==
    WaitCode(WaitArgs([t |-> job_table, p |-> proc, o |-> obs,
                       last_status |-> 0, had_error |-> FALSE],
                      [i \in DOMAIN order |-> IdArg(order[i])],
                      [pid \in RunningPids(proc) |-> p1[pid].ws]))

\* C38: when `wait` without arguments has run with two or more Running
\* jobs in the table, the code it returned is the one every order of
\* waiting gives for the same table and the same exit statuses.
C38_WaitCodeSameInEveryOrder ==
    [][(/\ pc = "exec"
        /\ last_cmd' = "wait"
        /\ last_args' = <<>>
        /\ entries_left' = entries_left - 1
        /\ Cardinality(RunningIds(job_table)) >= 2)
          => \A order \in Perms(RunningIds(job_table)) :
                last_exit_code' = WaitCodeInOrder(order, proc')
      ]_vars

\* the exit code of a wait status: the code of an exit, 128 + n for signal n
ClassifiedCode(ws) == IF ws.k = "exited" THEN ws.n ELSE 128 + ws.n

\* the job `id` of table t is new in t1, and nothing else has changed
NewJobIs(t, t1, job) ==
    /\ job.id = t.next_id
    /\ job.id \notin DOMAIN t.jobs
    /\ t1.next_id = t.next_id + 1
    /\ DOMAIN t1.jobs = DOMAIN t.jobs \cup {job.id}
    /\ t1.jobs[job.id] = job
    /\ \A i \in DOMAIN t.jobs : t1.jobs[i] = t.jobs[i]

\* C32: when the foreground wait for a single external command ends
\* because the command was stopped, one job is added, with a fresh id, the
\* status Stopped and the process group of the command, "[id]  Stopped
\* command" is printed, the terminal is back with the shell and the code is
\* 0; when it ends because the command ended, no job is added, nothing is
\* printed and the code is the one of its wait status.
C32_StoppedForegroundBecomesJob ==
    [][(ppc = "foreground" /\ ppc' # "foreground") =>
          LET pid == children[1] IN
          /\ ppc' = "done"
          /\ guards' = <<>>
          /\ terminal'.pgrp = ShellPgid
          /\ proc'[pid].st = "stopped" =>
                /\ NewJobIs(job_table, job_table',
                            [id |-> job_table.next_id, pid |-> pid, pgid |-> pgrp[pid],
                             status |-> Stopped])
                /\ printed' = Append(printed, JobLine("Stopped", job_table.next_id))
                /\ pipe_out'.code = 0
          /\ proc'[pid].st = "reaped" =>
                /\ job_table' = job_table
                /\ printed' = printed
                /\ pipe_out'.code = ClassifiedCode(proc'[pid].ws)
      ]_vars

\* C32 witness: `cat` alone was stopped at a terminal and is job 1
C32_Witness ==
    /\ Len(commands) = 1
    /\ ppc = "done"
    /\ pipe_out = [code |-> 0, why |-> "stopped"]
    /\ proc[1].st = "stopped"
    /\ terminal = [isatty |-> TRUE, pgrp |-> ShellPgid]
    /\ job_table.jobs[1] = [id |-> 1, pid |-> 1, pgid |-> 1, status |-> Stopped]
    /\ printed = <<JobLine("Stopped", 1)>>

SetMin(S) == CHOOSE x \in S : \A y \in S : x <= y

\* the external stages of the pipeline, as a set of stage numbers
ExternalStages == {k \in DOMAIN commands : ~IsBuiltin(commands[k].program)}

\* C33: a foreground pipeline enters the wait for its group only when every
\* stage has been launched, and leaves it either completed, with the code
\* it returns, or stopped.  When it is stopped, exactly one job is added,
\* Stopped, for a child of the pipeline and under the process group of the
\* first external stage, which is the group of every child still alive;
\* "[id]  Stopped  command" is printed, the terminal is back with the shell
\* and the executor returns Continue(0).
C33_StoppedPipelineBecomesOneJob ==
    [][/\ (ppc # "drain" /\ ppc' = "drain") =>
             /\ ppc = "wait"
             /\ ~background
             /\ stage_idx = Len(commands) + 1
             /\ Range(children') = ExternalStages
       /\ (ppc = "drain" /\ ppc' # "drain") =>
             /\ ppc' = "done"
             /\ pipe_out'.why \in {"finished", "stopped", "wait_error"}
             /\ guards' = <<>>
             /\ terminal'.pgrp = ShellPgid
             /\ pipe_out'.why # "stopped" => job_table' = job_table /\ printed' = printed
             /\ pipe_out'.why = "stopped" =>
                   /\ \E pid \in ExternalStages :
                         NewJobIs(job_table, job_table',
                                  [id |-> job_table.next_id, pid |-> pid,
                                   pgid |-> SetMin(ExternalStages), status |-> Stopped])
                   /\ \A c \in ExternalStages :
                         proc'[c].st \in {"running", "stopped"}
                            => pgrp[c] = SetMin(ExternalStages)
                   /\ \E c \in ExternalStages : proc'[c].st = "stopped"
                   /\ printed' = Append(printed, JobLine("Stopped", job_table.next_id))
                   /\ pipe_out'.code = 0
      ]_vars

\* C33 witness: of `cat | echo | cat` the first cat had ended and been
\* waited for when the second was stopped; the pipeline is job 1
C33_Witness ==
    /\ Len(commands) = 3
    /\ ExternalStages = {1, 3}
    /\ ppc = "done"
    /\ pipe_out = [code |-> 0, why |-> "stopped"]
    /\ proc[1].st = "reaped"
    /\ proc[3].st = "stopped"
    /\ job_table.jobs[1] = [id |-> 1, pid |-> 3, pgid |-> 1, status |-> Stopped]
    /\ printed = <<JobLine("Stopped", 1)>>
    /\ terminal = [isatty |-> TRUE, pgrp |-> ShellPgid]

\* the children that have been waited for
Reaped(p) == {pid \in DOMAIN p : p[pid].st = "reaped"}

\* C34 as stated: a background pipeline of several stages has returned
\* Continue(0), and no child of it has been waited for.
C34_BackgroundPipelineNeverWaits ==
    (background /\ Len(commands) > 1 /\ ppc = "done") =>
        /\ pipe_out.code = 0
        /\ Reaped(proc) = {}

\* C34 amended: when every stage of a background pipeline of several
\* stages has been started, the executor returns Continue(0) at once: it
\* waits for no child and joins no worker thread; with an external stage it
\* adds exactly one job, Running, with the pid of the last external stage
\* and the process group of the first, and prints "[id] pid"; with builtins
\* only it adds no job and prints nothing.
C34_BackgroundPipelineHandedOver ==
    [][(ppc = "wait" /\ ppc' # "wait" /\ background) =>
          /\ ppc' = "done"
          /\ pipe_out' = [code |-> 0, why |-> "background"]
          /\ proc' = proc
          /\ threads' = threads
          /\ guards' = guards
          /\ IF ExternalStages # {}
             THEN /\ NewJobIs(job_table, job_table',
                              [id |-> job_table.next_id, pid |-> SetMax(ExternalStages),
                               pgid |-> pgrp[SetMin(ExternalStages)], status |-> Running])
                  /\ pgrp[SetMax(ExternalStages)] = pgrp[SetMin(ExternalStages)]
                  /\ printed' = Append(printed, JobAnnounce(job_table.next_id,
                                                            SetMax(ExternalStages)))
             ELSE job_table' = job_table /\ printed' = printed
      ]_vars

\* C34 witness: `cat | cd | cat &` is job 1 while the thread of cd still runs
C34_Witness ==
    /\ background
    /\ Len(commands) = 3
    /\ ExternalStages = {1, 3}
    /\ ppc = "done"
    /\ pipe_out = [code |-> 0, why |-> "background"]
    /\ threads[2] = "running"
    /\ proc[1].st = "running" /\ proc[3].st = "running"
    /\ job_table.jobs[1] = [id |-> 1, pid |-> 3, pgid |-> 1, status |-> Running]
    /\ printed = <<JobAnnounce(1, 3)>>

\* C35 as stated: in a foreground pipeline no child has been waited for
\* while a worker thread had not finished or a stage was still to launch.
C35_NoWaitBeforeThreadsFinish ==
    (~background /\ Len(commands) > 1 /\ Reaped(proc) # {}) =>
        /\ \A k \in DOMAIN threads : threads[k] # "running"
        /\ stage_idx = Len(commands) + 1

\* C35 amended: in a foreground pipeline whose stages have all been
\* launched, the shell waits for its children only when every worker
\* thread has finished and been joined; and once a child of a pipeline has
\* been waited for, no stage is launched any more.
C35_ThreadsJoinedBeforeWait ==
    /\ ppc = "drain" =>
          /\ ~background
          /\ stage_idx = Len(commands) + 1
          /\ \A k \in DOMAIN commands :
                (k < Len(commands) /\ IsBuiltin(commands[k].program))
                    => k \in DOMAIN threads /\ threads[k] = "joined"
    /\ (Len(commands) > 1 /\ Reaped(proc) # {}) =>
          ppc \in {"drain", "wait_children", "done"}
    /\ (Len(commands) > 1 /\ ~background /\ ppc = "done" /\ pipe_out.why = "finished") =>
          \A k \in DOMAIN threads : threads[k] = "joined"

\* C35 witness: `echo | cat`: the thread of echo is joined and the shell
\* waits for cat
C35_Witness ==
    /\ ~background
    /\ Len(commands) = 2
    /\ commands[1].program = "echo"
    /\ commands[2].program = "cat"
    /\ ppc = "drain"
    /\ threads = <<"joined">>
    /\ proc[2].st = "running"

\* C36: for every job of the table, whichever path created it, the recorded
\* pgid is the process group its process actually belongs to.
C36_JobPgidIsTheProcessGroup ==
    \A id \in DOMAIN job_table.jobs :
        job_table.jobs[id].pid \in DOMAIN pgrp =>
            pgrp[job_table.jobs[id].pid] = job_table.jobs[id].pgid

\* C37: when the list ends with 1>&2, what the stage writes to stdout
\* arrives where what it writes to stderr arrives, as an external process
\* and as a builtin, for every kind of handle; and the same for 2>&1.
C37_DupRefersToSameResource ==
    (rpc # "start" /\ resolved.ok /\ redirections # <<>>) =>
        (redirections[Len(redirections)] \in {Dup(1, 2), Dup(2, 1)} =>
            /\ IntoStdio(resolved.stdout, "stdout") = IntoStdio(resolved.stderr, "stderr")
            /\ IntoWriter(resolved.stdout, "stdout") = IntoWriter(resolved.stderr, "stderr"))

\* the same for the handles that are not Inherit: held by the code
C37_DupOfOpenHandle ==
    (rpc # "start" /\ resolved.ok /\ redirections # <<>>) =>
        /\ (redirections[Len(redirections)] = Dup(1, 2) /\ resolved.stderr.k # "Inherit") =>
              IntoStdio(resolved.stdout, "stdout") = IntoStdio(resolved.stderr, "stderr")
        /\ (redirections[Len(redirections)] = Dup(2, 1) /\ resolved.stdout.k # "Inherit") =>
              IntoStdio(resolved.stdout, "stdout") = IntoStdio(resolved.stderr, "stderr")

\* the entry the driver is at is one that short-circuiting skips
SkippedNow ==
    /\ lpc = "loop"
    /\ entry_i <= Len(chain)
    /\ \/ chain[entry_i].connector = "And" /\ last_exit_code # 0
       \/ chain[entry_i].connector = "Or" /\ last_exit_code = 0

\* C39: the turn of the loop over an entry that short-circuiting skips
\* changes nothing: $? keeps the code of the last entry that ran, the job
\* table and the processes are as before, no redirection target is opened
\* and nothing is printed; the loop moves to the next entry, which is
\* tested against that same code.
C39_SkippedEntryChangesNothing ==
    [][SkippedNow =>
          /\ last_exit_code' = last_exit_code
          /\ job_table' = job_table
          /\ added' = added
          /\ proc' = proc
          /\ fs' = fs
          /\ printed' = <<>>
          /\ entry_i' = entry_i + 1
          /\ lpc' = (IF entry_i < Len(chain) THEN "loop" ELSE "done")
          /\ ran'[entry_i].run = FALSE
          /\ ran'[entry_i].after = last_exit_code
      ]_vars

\* C39 witness: `false && true > f ; ...`: the entry `true > f` was skipped,
\* f was not created and $? is still 1
C39_Witness ==
    /\ Len(ran) = 2
    /\ ran[1].run /\ ran[1].after = 1
    /\ chain[2].connector = "And"
    /\ chain[2].pipeline_words = <<<<WordOf("true"), WordOf(">"), WordOf("f")>>>>
    /\ ~ran[2].run
    /\ fs["f"] = "absent"
    /\ last_exit_code = 1
    /\ job_table.jobs = <<>>

(***************************************************************************)
(* SpecEditor: the line editor on a terminal, key by key, over the lines   *)
(* main() reads one after the other.                                       *)
(***************************************************************************)
\* what load_history may have read from ~/.jsh_history
LoadedHistories == {<<>>, <<Collect(<<233>>)>>}

EditorInit ==
    /\ ReplIdle /\ LineIdle /\ RedirIdle /\ PipeIdle /\ FilesIdle
    /\ last_exit_code = 0
    /\ background = FALSE
    /\ editor \in {NewEditor(h) : h \in LoadedHistories}
    /\ typed = NoneTyped

\* editor.rs:100-113  read_line on a terminal, up to the loop: reset_state
EditorReadLine ==
    /\ typed.at = "main"
    /\ editor' = ResetState(editor)
    /\ typed' = [at |-> "read_line", key |-> Key("read_line"), depth |-> 0, was |-> 0,
                 in_progress |-> <<>>]
    /\ UNCHANGED <<replVars, lineVars, redirVars, pipeVars, termVars, fs, fs0, cd_env, codec>>

\* editor.rs:185-316  handle_key returns Continue.  The history part of
\* typed counts the entries gone back, by the keys alone.
KeyContinue ==
    /\ typed.at = "read_line"
    /\ \E key \in Keys :
        /\ KeyAction(editor, key) = "Continue"
        /\ key.code = "Char" => Len(editor.buffer) < MaxLen
        /\ editor' = HandleKey(editor, key)
        /\ typed' =
             [at |-> "read_line", key |-> key, was |-> typed.depth,
              depth |-> IF key.code = "Up" /\ typed.depth < Len(editor.history)
                        THEN typed.depth + 1
                        ELSE IF key.code = "Down" /\ typed.depth > 0 THEN typed.depth - 1
                        ELSE IF key.code = "CtrlC" THEN 0
                        ELSE typed.depth,
              in_progress |-> IF key.code = "Up" /\ typed.depth = 0 /\ editor.history # <<>>
                              THEN editor.buffer
                              ELSE IF key.code = "CtrlC" THEN <<>>
                              ELSE typed.in_progress]
    /\ UNCHANGED <<replVars, lineVars, redirVars, pipeVars, termVars, fs, fs0, cd_env, codec>>

\* editor.rs:195-201, main.rs:69-97  Enter: the line is submitted and main()
\* adds it, trimmed, to the history unless it is blank
KeySubmit ==
    /\ typed.at = "read_line"
    /\ KeyAction(editor, Key("Enter")) = "Submit"
    /\ editor' = AddToHistory(editor, Trim(Collect(editor.buffer)))
    /\ typed' = [typed EXCEPT !.at = "main", !.key = Key("Enter"), !.was = typed.depth]
    /\ UNCHANGED <<replVars, lineVars, redirVars, pipeVars, termVars, fs, fs0, cd_env, codec>>

\* editor.rs:204-209, main.rs:71-80  Ctrl-D on an empty buffer: end of input
KeyEof ==
    /\ typed.at = "read_line"
    /\ KeyAction(editor, Key("CtrlD")) = "Eof"
    /\ typed' = [typed EXCEPT !.at = "ended", !.key = Key("CtrlD"), !.was = typed.depth]
    /\ UNCHANGED editor
    /\ UNCHANGED <<replVars, lineVars, redirVars, pipeVars, termVars, fs, fs0, cd_env, codec>>

EditorNext == EditorReadLine \/ KeyContinue \/ KeySubmit \/ KeyEof

SpecEditor == EditorInit /\ [][EditorNext]_vars

\* C40: after any sequence of keys the cursor is within the buffer and
\* the history index within the history; a Down that leaves the newest
\* history entry restores the buffer as it was at the first Up, with the
\* cursor at its end; an Up or a Down that leads to a history entry shows
\* that entry.
C40_EditorWithinBounds ==
    /\ 0 <= editor.cursor
    /\ editor.cursor <= Len(editor.buffer)
    /\ editor.history_idx <= Len(editor.history)
    /\ (typed.key = Key("Down") /\ typed.was = 1) =>
          /\ typed.depth = 0
          /\ editor.buffer = typed.in_progress
          /\ editor.cursor = Len(editor.buffer)
          /\ editor.history_idx = Len(editor.history)
    /\ (typed.key \in {Key("Up"), Key("Down")} /\ typed.depth > 0
            /\ typed.depth # typed.was) =>
          /\ Collect(editor.buffer) = editor.history[Len(editor.history) - typed.depth + 1]
          /\ editor.history_idx = Len(editor.history) - typed.depth

\* C40 witness: `aé` was being typed, Up went back two entries and Down
\* twice has brought `aé` back
C40_Witness ==
    /\ typed.at = "read_line"
    /\ typed.key = Key("Down")
    /\ typed.was = 1
    /\ typed.in_progress = <<97, 233>>
    /\ editor.buffer = <<97, 233>>
    /\ editor.saved_buffer = <<97, 195, 169>>
    /\ Len(editor.history) = 2

====
